---------------------------- MODULE Spec2Model ----------------------------
(***************************************************************************)
(* Verification model of code-sensei: the finding aggregation of          *)
(* ReviewService (deduplication, severity sort, adjusted score), the      *)
(* check-run conclusion of updateCheckRun, the auto-merge handler, the    *)
(* parsing of the AI response, AutoFixService and ComplexityAnalyzer.     *)
(***************************************************************************)
EXTENDS Integers, Sequences, FiniteSets, TLC

VARIABLES
    \* ReviewService.deduplicateIssues called on its own
    dPhase, dIssues, dUnique, dTwice,
    \* ReviewService.reviewPullRequest
    pc, astDone, securityDone, staticDone,
    astResults, securityResults, staticAnalysisResults, aiReview, mergedResult, thrown,
    \* pull_request handler and updateCheckRun
    prPc, prFiles, analysisResults, checkRun,
    \* check_suite.completed handler (auto-merge)
    amPc, amEnv, checkSuite, pulls, pullIdx, mergeLog,
    \* ClaudeReviewer.parseReviewResponse called on its own
    pPhase, pResponse, pReview,
    \* AutoFixService.applyAutoFixes
    fPhase, fContent, fIssues, fIdx, fFixedContent, fFixes, fCommitted,
    \* ComplexityAnalyzer.analyze
    cPhase, cContent, cLanguage, cMetrics,
    \* CodeAnalysisService.analyzeFiles
    afPc, afFiles, afIdx, afResults,
    \* handlePullRequestReview
    hPc, hReview, hStatuses, hReviews, hThrew,
    \* LearningService.recordFalsePositive
    lPc, lIssue, lExisting, lConfig,
    \* POST /api/metrics/review
    mStore, mPosted, mChanges

dedupVars == <<dPhase, dIssues, dUnique, dTwice>>
reviewVars == <<pc, astDone, securityDone, staticDone, astResults, securityResults,
                staticAnalysisResults, aiReview, mergedResult, thrown>>
checkVars == <<prPc, prFiles, analysisResults, checkRun>>
mergeVars == <<amPc, amEnv, checkSuite, pulls, pullIdx, mergeLog>>
parseVars == <<pPhase, pResponse, pReview>>
fixVars == <<fPhase, fContent, fIssues, fIdx, fFixedContent, fFixes, fCommitted>>
cxVars == <<cPhase, cContent, cLanguage, cMetrics>>
filesVars == <<afPc, afFiles, afIdx, afResults>>
handlerVars == <<hPc, hReview, hStatuses, hReviews, hThrew>>
learnVars == <<lPc, lIssue, lExisting, lConfig>>
metricsVars == <<mStore, mPosted, mChanges>>
vars == <<dedupVars, reviewVars, checkVars, mergeVars, parseVars, fixVars, cxVars,
          filesVars, handlerVars, learnVars, metricsVars>>

\* What the steps of one component leave alone: the state of the others.
exceptDedup == <<reviewVars, checkVars, mergeVars, parseVars, fixVars, cxVars,
    filesVars, handlerVars, learnVars, metricsVars>>
exceptReview == <<dedupVars, checkVars, mergeVars, parseVars, fixVars, cxVars,
    filesVars, handlerVars, learnVars, metricsVars>>
exceptCheck == <<dedupVars, reviewVars, mergeVars, parseVars, fixVars, cxVars,
    filesVars, handlerVars, learnVars, metricsVars>>
exceptMerge == <<dedupVars, reviewVars, checkVars, parseVars, fixVars, cxVars,
    filesVars, handlerVars, learnVars, metricsVars>>
exceptParse == <<dedupVars, reviewVars, checkVars, mergeVars, fixVars, cxVars,
    filesVars, handlerVars, learnVars, metricsVars>>
exceptFix == <<dedupVars, reviewVars, checkVars, mergeVars, parseVars, cxVars,
    filesVars, handlerVars, learnVars, metricsVars>>
exceptComplexity == <<dedupVars, reviewVars, checkVars, mergeVars, parseVars, fixVars,
    filesVars, handlerVars, learnVars, metricsVars>>
exceptFiles == <<dedupVars, reviewVars, checkVars, mergeVars, parseVars, fixVars, cxVars,
    handlerVars, learnVars, metricsVars>>
exceptHandler == <<dedupVars, reviewVars, checkVars, mergeVars, parseVars, fixVars, cxVars,
    filesVars, learnVars, metricsVars>>
exceptLearn == <<dedupVars, reviewVars, checkVars, mergeVars, parseVars, fixVars, cxVars,
    filesVars, handlerVars, metricsVars>>
exceptMetrics == <<dedupVars, reviewVars, checkVars, mergeVars, parseVars, fixVars, cxVars,
    filesVars, handlerVars, learnVars>>

---------------------------------------------------------------------------
(* Bounds *)

MaxDedupLen == 3
MaxIssues == 3
MaxFixedIssues == 2
MaxComments == 2

---------------------------------------------------------------------------
(* Generic helpers *)

\* The sequences over S of length at most n.
SeqsUpTo(S, n) == UNION {[1..k -> S] : k \in 0..n}

RECURSIVE SumSeq(_)
SumSeq(s) == IF s = <<>> THEN 0 ELSE Head(s) + SumSeq(Tail(s))

RECURSIVE FlatMap(_)
FlatMap(ss) == IF ss = <<>> THEN <<>> ELSE Head(ss) \o FlatMap(Tail(ss))

Min(a, b) == IF a < b THEN a ELSE b
Max(a, b) == IF a > b THEN a ELSE b

---------------------------------------------------------------------------
(* Issue model.  Strings are sequences of characters; an optional line is *)
(* <<>> (undefined) or <<n>>.                                              *)

Severities == {"critical", "high", "medium", "low", "info"}

Digit(d) == CASE d = 0 -> "0" [] d = 1 -> "1" [] d = 2 -> "2" [] d = 3 -> "3"
              [] d = 4 -> "4" [] d = 5 -> "5" [] d = 6 -> "6" [] d = 7 -> "7"
              [] d = 8 -> "8" [] d = 9 -> "9"

\* String(n) of a non-negative integer: its decimal digits.
RECURSIVE NumberToString(_)
NumberToString(n) ==
    IF n < 10 THEN <<Digit(n)>> ELSE Append(NumberToString(n \div 10), Digit(n % 10))

\* `${issue.line}`: an undefined line renders as the text "undefined".
LineToString(line) ==
    IF line = <<>> THEN <<"u", "n", "d", "e", "f", "i", "n", "e", "d">>
    ELSE NumberToString(line[1])

\* const key = `${issue.file}:${issue.line}:${issue.message}`
DedupKey(issue) ==
    issue.file \o <<":">> \o LineToString(issue.line) \o <<":">> \o issue.message

deduplicateIssuesToggle(issues) ==
    LET F[n \in 0..Len(issues)] ==
            IF n = 0 THEN [seen |-> {}, out |-> <<>>]
            ELSE LET prev == F[n - 1]
                     key == DedupKey(issues[n])
                 IN IF key \in prev.seen
                    THEN [seen |-> prev.seen \ {key}, out |-> prev.out]
                    ELSE [seen |-> prev.seen \cup {key}, out |-> Append(prev.out, issues[n])]
    IN F[Len(issues)].out

deduplicateIssuesKeepLast(issues) ==
    LET keep(n) == \A m \in (n + 1)..Len(issues) : DedupKey(issues[m]) # DedupKey(issues[n])
        F[n \in 0..Len(issues)] ==
            IF n = 0 THEN <<>>
            ELSE IF keep(n) THEN Append(F[n - 1], issues[n]) ELSE F[n - 1]
    IN F[Len(issues)]

\* ReviewService.deduplicateIssues: filter with a Set of the keys seen.
deduplicateIssues(issues) ==
    LET F[n \in 0..Len(issues)] ==
            IF n = 0 THEN [seen |-> {}, out |-> <<>>]
            ELSE LET prev == F[n - 1]
                     key == DedupKey(issues[n])
                 IN IF key \in prev.seen
                    THEN prev
                    ELSE [seen |-> prev.seen \cup {key}, out |-> Append(prev.out, issues[n])]
    IN F[Len(issues)].out

---------------------------------------------------------------------------
(* deduplicateIssues on its own: the argument is drawn from issue lists   *)
(* whose files and messages may contain ':'.                               *)

DedupFiles == {<<"a">>, <<"a", ":", "1">>}
DedupLines == {<<>>, <<1>>}
DedupMessages == {<<"x">>, <<"1", ":", "x">>}
DedupIssues ==
    [file : DedupFiles, line : DedupLines, message : DedupMessages,
     severity : {"critical", "low"}]

DedupIdle ==
    /\ dPhase = "idle" /\ dIssues = <<>> /\ dUnique = <<>> /\ dTwice = <<>>

InitDedup ==
    /\ dPhase = "call"
    /\ dIssues \in SeqsUpTo(DedupIssues, MaxDedupLen)
    /\ dUnique = <<>>
    /\ dTwice = <<>>

\* const uniqueIssues = this.deduplicateIssues(allIssues)
DedupCall ==
    /\ dPhase = "call"
    /\ dUnique' = deduplicateIssues(dIssues)
    /\ dPhase' = "returned"
    /\ UNCHANGED <<dIssues, dTwice>>
    /\ UNCHANGED exceptDedup

\* deduplicateIssues applied to its own result
DedupAgain ==
    /\ dPhase = "returned"
    /\ dTwice' = deduplicateIssues(dUnique)
    /\ dPhase' = "again"
    /\ UNCHANGED <<dIssues, dUnique>>
    /\ UNCHANGED exceptDedup

NextDedup ==
    \/ DedupCall
    \/ DedupAgain

---------------------------------------------------------------------------
(* ReviewService: sort, score and merge                                    *)

\* Scores are JavaScript numbers; they are kept in units of 1/ScoreUnit so
\* that a non-integer score (85.5) is representable.
ScoreUnit == 2

IsInteger(score) == score % ScoreUnit = 0

\* const severityOrder = { critical: 0, high: 1, medium: 2, low: 3, info: 4 }
severityOrder ==
    [s \in Severities |->
        CASE s = "critical" -> 0 [] s = "high" -> 1 [] s = "medium" -> 2
          [] s = "low" -> 3 [] s = "info" -> 4]

\* const severityPenalties = { critical: 10, high: 5, medium: 2, low: 1, info: 0 }
severityPenalties ==
    [s \in Severities |->
        CASE s = "critical" -> 10 [] s = "high" -> 5 [] s = "medium" -> 2
          [] s = "low" -> 1 [] s = "info" -> 0]

\* The comparator (a, b) => severityOrder[a.severity] - severityOrder[b.severity]
Compare(a, b) == severityOrder[a.severity] - severityOrder[b.severity]

\* Insert x into a sorted sequence behind every element that does not compare
\* greater than it (Array.prototype.sort is stable).
RECURSIVE InsertSorted(_, _)
InsertSorted(sorted, x) ==
    IF sorted = <<>> THEN <<x>>
    ELSE IF Compare(Head(sorted), x) <= 0
         THEN <<Head(sorted)>> \o InsertSorted(Tail(sorted), x)
         ELSE <<x>> \o sorted

RECURSIVE InsertSortedUnstable(_, _)
InsertSortedUnstable(sorted, x) ==
    IF sorted = <<>> THEN <<x>>
    ELSE IF Compare(Head(sorted), x) < 0
         THEN <<Head(sorted)>> \o InsertSortedUnstable(Tail(sorted), x)
         ELSE <<x>> \o sorted

SortBySeverityUnstable(issues) ==
    LET F[n \in 0..Len(issues)] ==
            IF n = 0 THEN <<>> ELSE InsertSortedUnstable(F[n - 1], issues[n])
    IN F[Len(issues)]

\* uniqueIssues.sort((a, b) => severityOrder[a.severity] - severityOrder[b.severity])
SortBySeverity(issues) ==
    LET F[n \in 0..Len(issues)] ==
            IF n = 0 THEN <<>> ELSE InsertSorted(F[n - 1], issues[n])
    IN F[Len(issues)]

calculateAdjustedScoreBonus(baseScore, issues) ==
    LET penalty == SumSeq([n \in 1..Len(issues) |-> severityPenalties[issues[n].severity]])
    IN Max(0, Min(100 * ScoreUnit, baseScore + penalty * ScoreUnit))

\* ReviewService.calculateAdjustedScore
calculateAdjustedScore(baseScore, issues) ==
    LET penalty == SumSeq([n \in 1..Len(issues) |-> severityPenalties[issues[n].severity]])
    IN Max(0, Min(100 * ScoreUnit, baseScore - penalty * ScoreUnit))

\* A score as it arrives in the parsed AI response: a number, a string holding
\* a number, nothing (missing, null), or a text that holds no number; val is in
\* 1/ScoreUnit.
Num(v) == [kind |-> "number", val |-> v]
Str(v) == [kind |-> "string", val |-> v]
NotANumber == [kind |-> "other", val |-> 0]
NonNumericText == [kind |-> "text", val |-> 0]

\* parseInt(score, 10) of a numeric string: the integer part.
ParseInt(v) == IF v >= 0 THEN (v \div ScoreUnit) * ScoreUnit
               ELSE 0 - (((0 - v) \div ScoreUnit) * ScoreUnit)

\* ClaudeReviewer.normalizeScore
normalizeScore(score) ==
    IF score.kind \in {"other", "text"} THEN 50 * ScoreUnit
    ELSE LET num == IF score.kind = "number" THEN score.val ELSE ParseInt(score.val)
         IN Max(0, Min(100 * ScoreUnit, num))

\* A field of an issue object of the parsed AI response: a string, a value of
\* another type (a number), or undefined.  val is the string (for a number, its
\* text).
JStr(v) == [kind |-> "string", val |-> v]
JNum(v) == [kind |-> "number", val |-> v]
JMissing(v) == [kind |-> "undefined", val |-> v]

Categories == {"security", "performance", "maintainability", "style", "bug", "best-practice"}

\* String.prototype.toLowerCase on the strings of the model
ToLowerCase(s) ==
    CASE s = "HIGH" -> "high"
      [] s = "Critical" -> "critical"
      [] s = "Security" -> "security"
      [] OTHER -> s

\* The TypeError of calling a method a value does not have.
TypeError == "TypeError"

\* ClaudeReviewer.normalizeSeverity: severity?.toLowerCase() is undefined for
\* undefined and throws for a value that is no string.
normalizeSeverity(severity) ==
    IF severity.kind = "undefined" THEN "medium"
    ELSE IF severity.kind # "string" THEN TypeError
    ELSE IF ToLowerCase(severity.val) \in Severities THEN ToLowerCase(severity.val)
    ELSE "medium"

\* ClaudeReviewer.normalizeCategory
normalizeCategory(category) ==
    IF category.kind = "undefined" THEN "maintainability"
    ELSE IF category.kind # "string" THEN TypeError
    ELSE IF ToLowerCase(category.val) \in Categories THEN ToLowerCase(category.val)
    ELSE "maintainability"

\* 'Issue detected' and 'unknown', as character sequences
IssueDetected == <<"I", "s", "s", "u", "e", " ", "d", "e", "t", "e", "c", "t", "e", "d">>
Unknown == <<"u", "n", "k", "n", "o", "w", "n">>

\* ClaudeReviewer.validateIssues: the items that are objects, each normalised;
\* threw tells that a normaliser threw.
validateIssues(issues) ==
    LET IsObject(issue) == issue.kind = "object"
        Falsy(v) == v.kind = "undefined" \/ v.val = <<>>
        objects == SelectSeq(issues, IsObject)
        mapped == [n \in 1..Len(objects) |->
                     [severity |-> normalizeSeverity(objects[n].severity),
                      category |-> normalizeCategory(objects[n].category),
                      message |-> IF Falsy(objects[n].message)
                                  THEN IssueDetected ELSE objects[n].message.val,
                      file |-> IF Falsy(objects[n].file)
                               THEN Unknown ELSE objects[n].file.val,
                      line |-> IF objects[n].line.kind = "number"
                               THEN objects[n].line.val ELSE <<>>]]
    IN [threw |-> \E n \in 1..Len(mapped) :
                      TypeError \in {mapped[n].severity, mapped[n].category},
        value |-> mapped]

\* The fallback response of parseReviewResponse's catch block
FallbackReview ==
    [summary |-> "Review completed with parsing issues. Please check manually.",
     overallScore |-> 50 * ScoreUnit,
     positiveFindings |-> <<>>,
     issues |-> <<>>,
     recommendations |-> <<"Manual review recommended due to parsing error">>]

\* The text of the AI response: without a JSON object, or with one that has
\* overallScore and issues (undefined, an array, or a value of another type).
NoJson == [kind |-> "nojson", overallScore |-> NotANumber,
           issues |-> [kind |-> "undefined", val |-> <<>>]]
Json(score, issues) == [kind |-> "json", overallScore |-> score, issues |-> issues]
JArray(items) == [kind |-> "array", val |-> items]

\* ClaudeReviewer.parseReviewResponse
parseReviewResponse(response) ==
    IF response.kind # "json" THEN FallbackReview
    ELSE IF response.issues.kind \notin {"undefined", "array"} THEN FallbackReview
    ELSE LET issues == validateIssues(response.issues.val)
         IN IF issues.threw THEN FallbackReview
            ELSE [summary |-> "Code review completed",
                  overallScore |-> normalizeScore(response.overallScore),
                  positiveFindings |-> <<>>,
                  issues |-> issues.value,
                  recommendations |-> <<>>]

\* The outcome of client.messages.create: an error, or a response text.
ApiError == [kind |-> "error", overallScore |-> NotANumber,
             issues |-> [kind |-> "undefined", val |-> <<>>]]

\* ClaudeReviewer.reviewCode: an error of the API call is logged and thrown again.
reviewCode(outcome) ==
    IF outcome.kind = "error" THEN [threw |-> TRUE, value |-> FallbackReview]
    ELSE [threw |-> FALSE, value |-> parseReviewResponse(outcome)]

\* Issues of a producer's AnalysisResult[]: results.flatMap((r) => r.issues)
IssuesOf(results) == FlatMap([n \in 1..Len(results) |-> results[n].issues])

mergeAnalysisResultsScoreAll(ai, ast, security, static) ==
    LET allIssues == ai.issues \o IssuesOf(ast) \o IssuesOf(security) \o IssuesOf(static)
        sortedIssues == SortBySeverity(deduplicateIssues(allIssues))
    IN [ai EXCEPT !.issues = sortedIssues,
                  !.overallScore = calculateAdjustedScore(ai.overallScore, allIssues)]

\* ReviewService.mergeAnalysisResults
mergeAnalysisResults(ai, ast, security, static) ==
    LET allIssues == ai.issues \o IssuesOf(ast) \o IssuesOf(security) \o IssuesOf(static)
        uniqueIssues == deduplicateIssues(allIssues)
        sortedIssues == SortBySeverity(uniqueIssues)
    IN [ai EXCEPT !.issues = sortedIssues,
                  !.overallScore = calculateAdjustedScore(ai.overallScore, sortedIssues)]

\* ReviewService.getEmptyReviewResult
getEmptyReviewResult ==
    [summary |-> "No files to review",
     overallScore |-> 100 * ScoreUnit,
     positiveFindings |-> <<>>,
     issues |-> <<>>,
     recommendations |-> <<>>]

---------------------------------------------------------------------------
(* ReviewService.reviewPullRequest                                         *)

FileA == <<"a">>
MsgX == <<"x">>
OptLines == {<<>>, <<1>>}

\* What the producers can report on the file under review.
\* The issue objects of the AI response are well formed here; the malformed
\* ones are the subject of the parseReviewResponse specification.
AIIssues ==
    [kind : {"object"}, file : {JStr(FileA)}, line : {JMissing(<<>>), JNum(<<1>>)},
     message : {JStr(MsgX)}, severity : {JStr(s) : s \in {"critical", "low", "info"}},
     category : {JStr("bug")}]
ASTIssues == [file : {FileA}, line : OptLines, message : {MsgX}, severity : {"medium"},
              category : {"maintainability"}]
SecurityIssues == [file : {FileA}, line : {<<1>>, <<2>>}, message : {MsgX},
                   severity : {"critical", "high"}, category : {"security"}]
StaticIssues == [file : {FileA}, line : {<<1>>}, message : {MsgX},
                 severity : {"low", "info"}, category : {"best-practice"}]

RawScores == {Num(5 * ScoreUnit), Num(85 * ScoreUnit), Num(85 * ScoreUnit + 1),
              Num(150 * ScoreUnit), Str(90 * ScoreUnit + 1), NotANumber}

NoReview == [summary |-> "", overallScore |-> 0, positiveFindings |-> <<>>,
             issues |-> <<>>, recommendations |-> <<>>]
NoResult == NoReview

Produced == Len(IssuesOf(astResults)) + Len(IssuesOf(securityResults))
            + Len(IssuesOf(staticAnalysisResults))

\* The AnalysisResult[] of a producer run on the file under review.
ResultsOver(universe, room) == {<<[issues |-> l]>> : l \in SeqsUpTo(universe, room)}

ReviewIdle ==
    /\ pc = "idle"
    /\ astDone = FALSE /\ securityDone = FALSE /\ staticDone = FALSE
    /\ astResults = <<>> /\ securityResults = <<>> /\ staticAnalysisResults = <<>>
    /\ aiReview = NoReview
    /\ mergedResult = NoResult
    /\ thrown = "none"

InitReview ==
    /\ pc = "start"
    /\ astDone = FALSE /\ securityDone = FALSE /\ staticDone = FALSE
    /\ astResults = <<>> /\ securityResults = <<>> /\ staticAnalysisResults = <<>>
    /\ aiReview = NoReview
    /\ mergedResult = NoResult
    /\ thrown = "none"

\* fetchPRFiles; no file to review returns getEmptyReviewResult()
FetchPRFiles ==
    /\ pc = "start"
    /\ \E n \in {0, 1} :
          IF n = 0
          THEN /\ mergedResult' = getEmptyReviewResult
               /\ pc' = "done"
          ELSE /\ pc' = "analysis"
               /\ UNCHANGED mergedResult
    /\ UNCHANGED <<astDone, securityDone, staticDone, astResults, securityResults,
                   staticAnalysisResults, aiReview, thrown>>
    /\ UNCHANGED exceptReview

\* What a producer's analysis of the file under review comes to: it throws, or
\* it returns its AnalysisResult[].
Outcomes(universe, room) ==
    {[threw |-> FALSE, results |-> r] : r \in ResultsOver(universe, room)}
    \cup {[threw |-> TRUE, results |-> <<>>]}

\* A producer that threw in spite of its catch block left nothing; in the model
\* an empty AnalysisResult[] is the mark of a failed producer.
Caught == [threw |-> FALSE, results |-> <<>>]

\* runASTAnalysis: try/catch around each file; a file whose analysis throws is
\* logged and left out
runASTAnalysis(outcome) == IF outcome.threw THEN Caught ELSE outcome

runSecurityScanNoCatch(outcome) == outcome

\* runSecurityScan: try { return await scanFiles(files) } catch { return [] }
runSecurityScan(outcome) == IF outcome.threw THEN Caught ELSE outcome

\* runStaticAnalysis: try { return await analyzeFiles(files) } catch { return [] }
runStaticAnalysis(outcome) == IF outcome.threw THEN Caught ELSE outcome

AnalysisSettledAny == astDone \/ securityDone \/ staticDone

\* Promise.all([...]) is settled when each of the three promises is.
AnalysisSettled == astDone /\ securityDone /\ staticDone

\* The first of the three promises runs to its end.
RunASTAnalysis ==
    /\ pc = "analysis" /\ ~astDone
    /\ \E outcome \in Outcomes(ASTIssues, MaxIssues - Produced) :
          LET r == runASTAnalysis(outcome)
          IN /\ astResults' = r.results
             /\ thrown' = IF r.threw /\ thrown = "none" THEN "runASTAnalysis" ELSE thrown
    /\ astDone' = TRUE
    /\ UNCHANGED <<pc, securityDone, staticDone, securityResults,
                   staticAnalysisResults, aiReview, mergedResult>>
    /\ UNCHANGED exceptReview

\* The second promise: runSecurityScan (or Promise.resolve([]) when the feature
\* is off)
RunSecurityScan ==
    /\ pc = "analysis" /\ ~securityDone
    /\ \E outcome \in Outcomes(SecurityIssues, MaxIssues - Produced) :
          LET r == runSecurityScan(outcome)
          IN /\ securityResults' = r.results
             /\ thrown' = IF r.threw /\ thrown = "none" THEN "runSecurityScan" ELSE thrown
    /\ securityDone' = TRUE
    /\ UNCHANGED <<pc, astDone, staticDone, astResults,
                   staticAnalysisResults, aiReview, mergedResult>>
    /\ UNCHANGED exceptReview

\* The third promise: runStaticAnalysis
RunStaticAnalysis ==
    /\ pc = "analysis" /\ ~staticDone
    /\ \E outcome \in Outcomes(StaticIssues, MaxIssues - Produced) :
          LET r == runStaticAnalysis(outcome)
          IN /\ staticAnalysisResults' = r.results
             /\ thrown' = IF r.threw /\ thrown = "none" THEN "runStaticAnalysis" ELSE thrown
    /\ staticDone' = TRUE
    /\ UNCHANGED <<pc, astDone, securityDone, astResults, securityResults,
                   aiReview, mergedResult>>
    /\ UNCHANGED exceptReview

\* await Promise.all([...]) resolves, or rejects with what a promise threw;
\* octokit.pulls.get is called
AwaitAnalysis ==
    /\ pc = "analysis" /\ AnalysisSettled
    /\ pc' = IF thrown = "none" THEN "ai" ELSE "threw"
    /\ UNCHANGED <<astDone, securityDone, staticDone, astResults, securityResults,
                   staticAnalysisResults, aiReview, mergedResult, thrown>>
    /\ UNCHANGED exceptReview

\* What client.messages.create comes to in claudeReviewer.reviewCode.
AIOutcomes(room) ==
    {ApiError, NoJson}
    \cup {Json(raw, JArray(l)) : raw \in RawScores, l \in SeqsUpTo(AIIssues, room)}

\* await claudeReviewer.reviewCode: it throws, and so does reviewPullRequest
\* from its own catch block, or it returns the parsed response and the review
\* goes on, without another await, to mergeAnalysisResults and returns.
ReviewCode ==
    /\ pc = "ai"
    /\ \E outcome \in AIOutcomes(MaxIssues - Produced) :
          LET r == reviewCode(outcome)
          IN IF r.threw
             THEN /\ pc' = "threw"
                  /\ thrown' = "reviewCode"
                  /\ UNCHANGED <<aiReview, mergedResult>>
             ELSE /\ pc' = "done"
                  /\ aiReview' = r.value
                  /\ mergedResult' = mergeAnalysisResults(r.value, astResults,
                                         securityResults, staticAnalysisResults)
                  /\ UNCHANGED thrown
    /\ UNCHANGED <<astDone, securityDone, staticDone, astResults, securityResults,
                   staticAnalysisResults>>
    /\ UNCHANGED exceptReview

Next ==
    \/ FetchPRFiles
    \/ RunASTAnalysis
    \/ RunSecurityScan
    \/ RunStaticAnalysis
    \/ AwaitAnalysis
    \/ ReviewCode

---------------------------------------------------------------------------
(* CodeAnalysisService results and updateCheckRun                          *)

\* SecurityScanner.scan: the six checks in the order they run, each with the
\* severity of the SecurityIssue it pushes.
SecurityChecks ==
    <<[title |-> "sql-injection", severity |-> "critical"],
      [title |-> "xss", severity |-> "high"],
      [title |-> "hardcoded-secret", severity |-> "critical"],
      [title |-> "insecure-crypto", severity |-> "high"],
      [title |-> "command-injection", severity |-> "critical"],
      [title |-> "path-traversal", severity |-> "high"]>>

CheckTitles == {SecurityChecks[n].title : n \in 1..Len(SecurityChecks)}

scanAsMedium(matching) ==
    LET hit(c) == c.title \in matching
        found == SelectSeq(SecurityChecks, hit)
    IN [n \in 1..Len(found) |-> [title |-> found[n].title, severity |-> "medium"]]

\* SecurityScanner.scan on a content on which the checks in `matching` fire
scan(matching) ==
    LET hit(c) == c.title \in matching
    IN SelectSeq(SecurityChecks, hit)

updateCheckRunConclusionAtTen(results) ==
    LET IsCritical(i) == i.severity = "critical"
        totalIssues == SumSeq([n \in 1..Len(results) |-> Len(results[n].issues)])
        criticalIssues ==
            SumSeq([n \in 1..Len(results) |-> Len(SelectSeq(results[n].issues, IsCritical))])
        securityIssues ==
            SumSeq([n \in 1..Len(results) |-> Len(results[n].securityIssues)])
    IN IF criticalIssues > 0 \/ securityIssues > 0 THEN "failure"
       ELSE IF totalIssues >= 10 THEN "neutral"
       ELSE "success"

\* updateCheckRun: totalIssues, criticalIssues, securityIssues and conclusion
updateCheckRunConclusion(results) ==
    LET IsCritical(i) == i.severity = "critical"
        totalIssues == SumSeq([n \in 1..Len(results) |-> Len(results[n].issues)])
        criticalIssues ==
            SumSeq([n \in 1..Len(results) |-> Len(SelectSeq(results[n].issues, IsCritical))])
        securityIssues ==
            SumSeq([n \in 1..Len(results) |-> Len(results[n].securityIssues)])
    IN IF criticalIssues > 0 \/ securityIssues > 0 THEN "failure"
       ELSE IF totalIssues > 10 THEN "neutral"
       ELSE "success"

\* The issues a language analyzer reports for a file: k findings of one rule.
Repeat(x, k) == [n \in 1..k |-> x]
RunLengths == {0, 1, 5, 6, 10}
AnalyzerOutputs == {Repeat([severity |-> s], k) : s \in Severities, k \in RunLengths}
ScanMatches == {m \in SUBSET CheckTitles : Cardinality(m) <= 1}

\* AIReviewService.getFallbackReview: the score computed from the analysis
\* results
getFallbackReview(results) ==
    LET IsCritical(i) == i.severity = "critical"
        totalIssues == SumSeq([n \in 1..Len(results) |-> Len(results[n].issues)])
        criticalIssues ==
            SumSeq([n \in 1..Len(results) |-> Len(SelectSeq(results[n].issues, IsCritical))])
        securityIssues ==
            SumSeq([n \in 1..Len(results) |-> Len(results[n].securityIssues)])
        score == 85 - criticalIssues * 10 - securityIssues * 15 - Min(totalIssues * 2, 30)
    IN Num(Max(0, Min(100, score)) * ScoreUnit)

\* AIReviewService.parseReviewResponse: overallScore: parsed.overallScore || 70
\* (undefined, null and 0 are falsy); getFallbackReview without a JSON object.
parseReviewText(response, results) ==
    IF response.kind # "json" THEN getFallbackReview(results)
    ELSE IF response.overallScore.kind = "other"
            \/ (response.overallScore.kind = "number" /\ response.overallScore.val = 0)
         THEN Num(70 * ScoreUnit)
         ELSE response.overallScore

\* AIReviewService.reviewCode: an error of the API call gives getFallbackReview.
aiReviewServiceReviewCode(outcome, results) ==
    IF outcome.kind = "error" THEN getFallbackReview(results)
    ELSE parseReviewText(outcome, results)

\* What client.messages.create comes to in aiReviewService.reviewCode.
ReviewTexts ==
    {ApiError, NoJson}
    \cup {Json(score, JMissing(<<>>)) :
            score \in {Num(85 * ScoreUnit), Num(150 * ScoreUnit), Num(0), NotANumber}}

NoCheckRun == [status |-> "none", conclusion |-> "none", overallScore |-> NotANumber]

CheckIdle ==
    /\ prPc = "idle" /\ prFiles = 0 /\ analysisResults = <<>> /\ checkRun = NoCheckRun

InitCheckRun ==
    /\ prPc = "start" /\ prFiles = 0 /\ analysisResults = <<>> /\ checkRun = NoCheckRun

\* checks.create({status: 'in_progress'}) and pulls.listFiles
CreateCheckRun ==
    /\ prPc = "start"
    /\ checkRun' = [status |-> "in_progress", conclusion |-> "none",
                    overallScore |-> NotANumber]
    /\ prFiles' \in {1, 2}
    /\ prPc' = "analyzing"
    /\ UNCHANGED analysisResults
    /\ UNCHANGED exceptCheck

\* One iteration of the loop of CodeAnalysisService.analyzeFiles over a file
\* of a supported language.
AnalyzeFile ==
    /\ prPc = "analyzing" /\ prFiles > 0
    /\ \E issues \in AnalyzerOutputs, matching \in ScanMatches :
          analysisResults' =
              Append(analysisResults, [issues |-> issues, securityIssues |-> scan(matching)])
    /\ prFiles' = prFiles - 1
    /\ UNCHANGED <<prPc, checkRun>>
    /\ UNCHANGED exceptCheck

\* An iteration that skips an unsupported file or catches an analysis error.
SkipFile ==
    /\ prPc = "analyzing" /\ prFiles > 0
    /\ prFiles' = prFiles - 1
    /\ UNCHANGED <<prPc, analysisResults, checkRun>>
    /\ UNCHANGED exceptCheck

\* The rest of the handler: aiReviewService.reviewCode, the comments and
\* updateCheckRun(context, id, 'completed', analysisResults, aiReview), whose
\* summary states aiReview.overallScore as the summary comment does.
UpdateCheckRun ==
    /\ prPc = "analyzing" /\ prFiles = 0
    /\ \E outcome \in ReviewTexts :
          checkRun' = [status |-> "completed",
                       conclusion |-> updateCheckRunConclusion(analysisResults),
                       overallScore |->
                           aiReviewServiceReviewCode(outcome, analysisResults)]
    /\ prPc' = "done"
    /\ UNCHANGED <<prFiles, analysisResults>>
    /\ UNCHANGED exceptCheck

\* A step between checks.create and updateCheckRun rejects (pulls.listFiles,
\* createReviewComment, issues.createComment, applyFixes): the catch block of
\* the handler logs and posts an error comment, and the handler returns.
CatchHandlerError ==
    /\ prPc = "analyzing"
    /\ prPc' = "failed"
    /\ UNCHANGED <<prFiles, analysisResults, checkRun>>
    /\ UNCHANGED exceptCheck

\* checks.update rejects inside updateCheckRun, which catches and logs it.
UpdateCheckRunRejects ==
    /\ prPc = "analyzing" /\ prFiles = 0
    /\ prPc' = "failed"
    /\ UNCHANGED <<prFiles, analysisResults, checkRun>>
    /\ UNCHANGED exceptCheck

NextCheckRun ==
    \/ CreateCheckRun
    \/ AnalyzeFile
    \/ SkipFile
    \/ UpdateCheckRun
    \/ CatchHandlerError
    \/ UpdateCheckRunRejects

---------------------------------------------------------------------------
(* setupAutoMergeHandlers: check_suite.completed                           *)

\* A PR comment: whether its body includes 'Code Sensei AI Review', and the
\* overall score printed in "**Overall Score:** <score>/100" (<<>>: no such line).
Comment(sensei, score) == [sensei |-> sensei, overallScore |-> score]
CommentKinds ==
    {Comment(FALSE, <<>>),
     Comment(TRUE, <<75 * ScoreUnit>>),
     Comment(TRUE, <<85 * ScoreUnit>>),
     Comment(TRUE, <<85 * ScoreUnit + 1>>)}

\* body.match(/Overall Score:\*\* (\d+)\/100/) and parseInt of the group: the
\* pattern needs the digits to be followed directly by "/100".
ScoreMatch(comment) ==
    IF comment.overallScore # <<>> /\ comment.overallScore[1] >= 0
       /\ IsInteger(comment.overallScore[1])
    THEN <<comment.overallScore[1] \div ScoreUnit>>
    ELSE <<>>

\* comments.data.find(comment => comment.body?.includes('Code Sensei AI Review'))
RECURSIVE FindSensei(_)
FindSensei(comments) ==
    IF comments = <<>> THEN <<>>
    ELSE IF Head(comments).sensei THEN <<Head(comments)>>
    ELSE FindSensei(Tail(comments))

\* parseInt(process.env.AUTO_MERGE_MIN_SCORE || '80')
MinScore(env) == IF env.minScore = <<>> THEN 80 ELSE env.minScore[1]

\* let scoreAcceptable = true; ... scoreAcceptable = score >= minScore
ScoreAcceptable(comments, env) ==
    LET senseiComment == FindSensei(comments)
    IN IF senseiComment = <<>> THEN TRUE
       ELSE LET scoreMatch == ScoreMatch(senseiComment[1])
            IN IF scoreMatch = <<>> THEN TRUE
               ELSE scoreMatch[1] >= MinScore(env)

AutoMergeEnvs == [enabled : BOOLEAN, minScore : {<<>>, <<90>>}]
SuiteConclusions == {"success", "failure", "neutral"}
PullLists == {<<>>} \cup {<<[label |-> a]>> : a \in BOOLEAN}
             \cup {<<[label |-> a], [label |-> b]>> : a, b \in BOOLEAN}

MergeIdle ==
    /\ amPc = "idle" /\ amEnv = [enabled |-> FALSE, minScore |-> <<>>]
    /\ checkSuite = "none" /\ pulls = <<>> /\ pullIdx = 0 /\ mergeLog = <<>>

InitAutoMerge ==
    /\ amPc = "start"
    /\ amEnv \in AutoMergeEnvs
    /\ checkSuite \in SuiteConclusions
    /\ pulls = <<>> /\ pullIdx = 0 /\ mergeLog = <<>>

\* AUTO_MERGE_ENABLED is not 'true': return
AutoMergeDisabled ==
    /\ amPc = "start" /\ ~amEnv.enabled
    /\ amPc' = "done"
    /\ UNCHANGED <<amEnv, checkSuite, pulls, pullIdx, mergeLog>>
    /\ UNCHANGED exceptMerge

\* check_suite.conclusion !== 'success': return
SuiteNotSuccessful ==
    /\ amPc = "start" /\ amEnv.enabled /\ checkSuite # "success"
    /\ amPc' = "done"
    /\ UNCHANGED <<amEnv, checkSuite, pulls, pullIdx, mergeLog>>
    /\ UNCHANGED exceptMerge

\* octokit.pulls.list: the open pull requests of the head branch
ListPulls ==
    /\ amPc = "start" /\ amEnv.enabled /\ checkSuite = "success"
    /\ pulls' \in PullLists
    /\ pullIdx' = 1
    /\ amPc' = "loop"
    /\ UNCHANGED <<amEnv, checkSuite, mergeLog>>
    /\ UNCHANGED exceptMerge

\* One iteration of `for (const pull of pulls.data)`.  What the iteration did
\* not fetch is recorded as not approved / no comments.
ProcessPull ==
    /\ amPc = "loop" /\ pullIdx <= Len(pulls)
    /\ \E hasApproval \in BOOLEAN, comments \in SeqsUpTo(CommentKinds, MaxComments),
          mergeOk \in BOOLEAN :
          LET hasAutoMergeLabel == pulls[pullIdx].label
              fetchedReviews == hasAutoMergeLabel
              fetchedComments == hasAutoMergeLabel /\ hasApproval
              mergeCalled == /\ hasAutoMergeLabel
                             /\ hasApproval
                             /\ ScoreAcceptable(comments, amEnv)
          IN /\ fetchedReviews \/ ~hasApproval
             /\ fetchedComments \/ comments = <<>>
             /\ mergeCalled \/ ~mergeOk
             /\ mergeLog' = Append(mergeLog,
                                   [pull |-> pullIdx,
                                    label |-> hasAutoMergeLabel,
                                    approved |-> hasApproval,
                                    comments |-> comments,
                                    mergeCalled |-> mergeCalled,
                                    merged |-> mergeCalled /\ mergeOk])
    /\ pullIdx' = pullIdx + 1
    /\ UNCHANGED <<amPc, amEnv, checkSuite, pulls>>
    /\ UNCHANGED exceptMerge

\* The loop is over; the handler returns.
AutoMergeReturn ==
    /\ amPc = "loop" /\ pullIdx > Len(pulls)
    /\ amPc' = "done"
    /\ UNCHANGED <<amEnv, checkSuite, pulls, pullIdx, mergeLog>>
    /\ UNCHANGED exceptMerge

NextAutoMerge ==
    \/ AutoMergeDisabled
    \/ SuiteNotSuccessful
    \/ ListPulls
    \/ ProcessPull
    \/ AutoMergeReturn

---------------------------------------------------------------------------
(* ClaudeReviewer.parseReviewResponse on its own: the issue objects of    *)
(* the response may be malformed.                                          *)

MaxRawIssues == 2

\* issue.severity and issue.category as the response may hold them: an allowed
\* value, one in another case, an unknown one, none, and a number.
RawSeverities == {JStr("high"), JStr("HIGH"), JStr("blocker"), JMissing(""), JNum("5")}
RawCategories == {JStr("bug"), JStr("Security"), JStr("nonsense"), JMissing(""), JNum("5")}

RawIssue(severity, category, message, file, line) ==
    [kind |-> "object", severity |-> severity, category |-> category,
     message |-> message, file |-> file, line |-> line]

\* The items of parsed.issues: issue objects with every severity and category,
\* issue objects with or without message, file and line, and an item that is
\* no object.
RawItems ==
    {RawIssue(s, c, JStr(MsgX), JStr(FileA), JNum(<<1>>)) :
        s \in RawSeverities, c \in RawCategories}
    \cup {RawIssue(JStr("high"), JStr("bug"), m, f, l) :
            m \in {JStr(MsgX), JStr(<<>>), JMissing(<<>>)},
            f \in {JStr(FileA), JMissing(<<>>)},
            l \in {JNum(<<1>>), JMissing(<<>>)}}
    \cup {[RawIssue(JStr("high"), JStr("bug"), JStr(MsgX), JStr(FileA), JNum(<<1>>))
              EXCEPT !.kind = "string"]}

\* parsed.issues that is neither undefined nor an array (a number).
NotAnArray == [kind |-> "number", val |-> <<>>]

ParseResponses ==
    {NoJson}
    \cup {Json(score, issues) :
            score \in {Num(85 * ScoreUnit), NotANumber},
            issues \in {JMissing(<<>>), NotAnArray}
                       \cup {JArray(l) : l \in SeqsUpTo(RawItems, MaxRawIssues)}}

InitParse ==
    /\ pPhase = "call"
    /\ pResponse \in ParseResponses
    /\ pReview = NoReview

\* const review = this.parseReviewResponse(responseText, context.files)
ParseReviewResponse ==
    /\ pPhase = "call"
    /\ pReview' = parseReviewResponse(pResponse)
    /\ pPhase' = "returned"
    /\ UNCHANGED pResponse
    /\ UNCHANGED exceptParse

NextParse ==
    \/ ParseReviewResponse

---------------------------------------------------------------------------
(* AutoFixService.applyAutoFixes on the issues of one file.  A text is a   *)
(* sequence of pieces: a piece is a run of word characters ("var", "x") or *)
(* one other character; two word pieces in a row read as one identifier.   *)

MaxContentLen == 3
MaxFileIssues == 1

NewLine == "\n"
WordPieces == {"var", "x", "const", "if", "else", "while", "for", "case", "catch",
               "and", "or", "return"}
IsWord(piece) == piece \in WordPieces
IsSpace(piece) == piece = " "

\* content.split('\n')
RECURSIVE Split(_)
Split(content) ==
    IF content = <<>> THEN << <<>> >>
    ELSE LET rest == Split(Tail(content))
         IN IF Head(content) = NewLine THEN << <<>> >> \o rest
            ELSE << <<Head(content)>> \o Head(rest) >> \o Tail(rest)

\* lines.join('\n')
RECURSIVE Join(_)
Join(lines) ==
    IF Len(lines) = 1 THEN Head(lines)
    ELSE Head(lines) \o <<NewLine>> \o Join(Tail(lines))

\* line.replace(/\bvar\b/, 'const'): the first whole word var
ReplaceVar(line) ==
    LET Matches(n) == /\ line[n] = "var"
                      /\ n = 1 \/ ~IsWord(line[n - 1])
                      /\ n = Len(line) \/ ~IsWord(line[n + 1])
        hits == {n \in 1..Len(line) : Matches(n)}
    IN IF hits = {} THEN line
       ELSE LET first == CHOOSE n \in hits : \A m \in hits : n <= m
            IN [line EXCEPT ![first] = "const"]

\* line.trimEnd()
RECURSIVE TrimEnd(_)
TrimEnd(line) ==
    IF line # <<>> /\ IsSpace(line[Len(line)])
    THEN TrimEnd(SubSeq(line, 1, Len(line) - 1))
    ELSE line

\* line.replace(/"/g, "'")
ReplaceQuotes(line) == [n \in 1..Len(line) |-> IF line[n] = "\"" THEN "'" ELSE line[n]]

\* The rule codes applyFix has a case for.
FixCodes == {"no-var", "no-console", "no-debugger", "missing-semicolon",
             "trailing-whitespace", "double-quotes"}

applyFixGuess(content, issue) ==
    LET lines == Split(content)
    IN IF issue.line = <<>> \/ issue.line[1] = 0 \/ issue.line[1] > Len(lines)
       THEN content
       ELSE LET lineIndex == issue.line[1]
                line == lines[lineIndex]
            IN Join([lines EXCEPT ![lineIndex] =
                        IF issue.code = <<"no-var">> THEN ReplaceVar(line)
                        ELSE IF issue.code = <<"missing-semicolon">>
                        THEN TrimEnd(line) \o <<";">>
                        ELSE IF issue.code = <<"trailing-whitespace">> THEN TrimEnd(line)
                        ELSE IF issue.code = <<"double-quotes">> THEN ReplaceQuotes(line)
                        ELSE <<>>])

applyFixRemoveLine(content, issue) ==
    LET lines == Split(content)
    IN IF issue.line = <<>> \/ issue.line[1] = 0 \/ issue.line[1] > Len(lines)
       THEN content
       ELSE LET lineIndex == issue.line[1]
                line == lines[lineIndex]
            IN IF issue.code \in {<<"no-console">>, <<"no-debugger">>} /\ Len(lines) > 1
               THEN Join(SubSeq(lines, 1, lineIndex - 1)
                         \o SubSeq(lines, lineIndex + 1, Len(lines)))
               ELSE Join([lines EXCEPT ![lineIndex] =
                        CASE issue.code = <<"no-var">> -> ReplaceVar(line)
                          [] issue.code = <<"no-console">> -> <<>>
                          [] issue.code = <<"no-debugger">> -> <<>>
                          [] issue.code = <<"missing-semicolon">> -> TrimEnd(line) \o <<";">>
                          [] issue.code = <<"trailing-whitespace">> -> TrimEnd(line)
                          [] issue.code = <<"double-quotes">> -> ReplaceQuotes(line)
                          [] OTHER -> line])

\* AutoFixService.applyFix; issue.code and issue.line are optional (<<>>).
applyFix(content, issue) ==
    LET lines == Split(content)
    IN IF issue.line = <<>> \/ issue.line[1] = 0 \/ issue.line[1] > Len(lines)
       THEN content
       ELSE LET lineIndex == issue.line[1]
                line == lines[lineIndex]
            IN Join([lines EXCEPT ![lineIndex] =
                        CASE issue.code = <<"no-var">> -> ReplaceVar(line)
                          [] issue.code = <<"no-console">> -> <<>>
                          [] issue.code = <<"no-debugger">> -> <<>>
                          [] issue.code = <<"missing-semicolon">> -> TrimEnd(line) \o <<";">>
                          [] issue.code = <<"trailing-whitespace">> -> TrimEnd(line)
                          [] issue.code = <<"double-quotes">> -> ReplaceQuotes(line)
                          [] OTHER -> line])

\* The file contents and the issues of the file handed to applyAutoFixes.
ContentPieces == {"var", "x", " ", "\"", NewLine}
Contents == SeqsUpTo(ContentPieces, MaxContentLen)
IssueCodes == {<<>>, <<"custom-rule">>} \cup {<<c>> : c \in FixCodes}
FileIssues ==
    [code : IssueCodes, line : {<<>>, <<1>>, <<2>>}, autoFixable : {TRUE}]
    \cup {[code |-> <<"no-var">>, line |-> <<1>>, autoFixable |-> FALSE]}

\* Two auto-fixable issues of one file, each on a line of its own choice.
SeveralFixes ==
    [1..2 -> [code : {<<"no-var">>, <<"no-console">>, <<"missing-semicolon">>},
              line : {<<1>>, <<2>>}, autoFixable : {TRUE}]]

\* const fixableIssues = issues.filter((issue) => issue.autoFixable)
fixableIssues(issues) ==
    LET IsFixable(issue) == issue.autoFixable
    IN SelectSeq(issues, IsFixable)

InitFix ==
    /\ fPhase = "start"
    /\ fContent \in Contents
    /\ fIssues \in SeqsUpTo(FileIssues, MaxFileIssues) \cup SeveralFixes
    /\ fIdx = 0
    /\ fFixedContent = <<>>
    /\ fFixes = <<>>
    /\ fCommitted = FALSE

\* No auto-fixable issue: return []
NoFixableIssues ==
    /\ fPhase = "start"
    /\ fixableIssues(fIssues) = <<>>
    /\ fPhase' = "returned"
    /\ UNCHANGED <<fContent, fIssues, fIdx, fFixedContent, fFixes, fCommitted>>
    /\ UNCHANGED exceptFix

\* octokit.repos.getContent; let fixedContent = originalContent
GetContent ==
    /\ fPhase = "start"
    /\ fixableIssues(fIssues) # <<>>
    /\ fFixedContent' = fContent
    /\ fPhase' = "fixing"
    /\ UNCHANGED <<fContent, fIssues, fIdx, fFixes, fCommitted>>
    /\ UNCHANGED exceptFix

\* for (const issue of fileIssues) fixedContent = this.applyFix(fixedContent, issue)
ApplyFix ==
    /\ fPhase = "fixing"
    /\ fIdx < Len(fixableIssues(fIssues))
    /\ fFixedContent' = applyFix(fFixedContent, fixableIssues(fIssues)[fIdx + 1])
    /\ fIdx' = fIdx + 1
    /\ UNCHANGED <<fPhase, fContent, fIssues, fFixes, fCommitted>>
    /\ UNCHANGED exceptFix

\* if (fixedContent !== originalContent) fixes.push(...)
ReportFix ==
    /\ fPhase = "fixing"
    /\ fIdx = Len(fixableIssues(fIssues))
    /\ fFixes' = IF fFixedContent # fContent
                 THEN Append(fFixes, [original |-> fContent, fixed |-> fFixedContent])
                 ELSE fFixes
    /\ fPhase' = "commit"
    /\ UNCHANGED <<fContent, fIssues, fIdx, fFixedContent, fCommitted>>
    /\ UNCHANGED exceptFix

\* if (fixes.length > 0) createFixCommit(...); return fixes
CreateFixCommit ==
    /\ fPhase = "commit"
    /\ fCommitted' = (Len(fFixes) > 0)
    /\ fPhase' = "returned"
    /\ UNCHANGED <<fContent, fIssues, fIdx, fFixedContent, fFixes>>
    /\ UNCHANGED exceptFix

NextFix ==
    \/ NoFixableIssues
    \/ GetContent
    \/ ApplyFix
    \/ ReportFix
    \/ CreateFixCommit

---------------------------------------------------------------------------
(* ComplexityAnalyzer.analyze.  The source text is a sequence of pieces as *)
(* above; '$' is a piece of its own, for it is no word character of a      *)
(* regular expression although identifiers may hold it.                    *)

MaxSourceLen == 3

\* \s
IsWhitespace(piece) == piece \in {" ", NewLine}

\* /\bword\b/ matches at piece n
WordAt(text, n, word) ==
    /\ text[n] = word
    /\ n = 1 \/ ~IsWord(text[n - 1])
    /\ n = Len(text) \/ ~IsWord(text[n + 1])

\* content.match(/\bword\b/g).length
MatchCount(text, word) == Cardinality({n \in 1..Len(text) : WordAt(text, n, word)})

\* content.match(/\belse\s+if\b/g).length
ElseIfCount(text) ==
    Cardinality({n \in 1..Len(text) :
        /\ text[n] = "else"
        /\ n = 1 \/ ~IsWord(text[n - 1])
        /\ \E m \in (n + 2)..Len(text) :
              /\ \A k \in (n + 1)..(m - 1) : IsWhitespace(text[k])
              /\ text[m] = "if"
              /\ m = Len(text) \/ ~IsWord(text[m + 1])})

\* content.match(/&&/g).length, content.match(/\|\|/g).length: the matches of a
\* global pattern do not overlap.
RECURSIVE PairCount(_, _)
PairCount(text, ch) ==
    IF Len(text) < 2 THEN 0
    ELSE IF text[1] = ch /\ text[2] = ch
         THEN 1 + PairCount(SubSeq(text, 3, Len(text)), ch)
         ELSE PairCount(Tail(text), ch)

\* content.match(/\?/g).length
CharCount(text, ch) == Cardinality({n \in 1..Len(text) : text[n] = ch})

\* line.includes(piece)
Includes(line, piece) == \E n \in 1..Len(line) : line[n] = piece

\* The keywords of /\b(if|while|for|case)\b/
ControlKeywords == {"if", "while", "for", "case"}

\* ComplexityAnalyzer.calculateCyclomaticComplexity
calculateCyclomaticComplexity(content) ==
    1 + MatchCount(content, "if") + ElseIfCount(content) + MatchCount(content, "while")
      + MatchCount(content, "for") + MatchCount(content, "case")
      + MatchCount(content, "catch") + MatchCount(content, "and")
      + MatchCount(content, "or") + PairCount(content, "&") + PairCount(content, "|")
      + CharCount(content, "?")

\* ComplexityAnalyzer.calculateCognitiveComplexity
calculateCognitiveComplexity(content) ==
    LET lines == Split(content)
        F[n \in 0..Len(lines)] ==
            IF n = 0 THEN [complexity |-> 0, nestingLevel |-> 0]
            ELSE LET prev == F[n - 1]
                     line == lines[n]
                     opened == IF Includes(line, "{") THEN prev.nestingLevel + 1
                               ELSE prev.nestingLevel
                     nestingLevel == IF Includes(line, "}") THEN Max(0, opened - 1)
                                     ELSE opened
                     control == IF \E word \in ControlKeywords : MatchCount(line, word) > 0
                                THEN 1 + nestingLevel ELSE 0
                     logicalOps == PairCount(line, "&") + PairCount(line, "|")
                     recursion == IF Includes(line, "return") /\ Includes(line, "(")
                                  THEN 1 ELSE 0
                 IN [complexity |-> prev.complexity + control + logicalOps + recursion,
                     nestingLevel |-> nestingLevel]
    IN F[Len(lines)].complexity

\* line.trim()
RECURSIVE TrimStart(_)
TrimStart(line) ==
    IF line # <<>> /\ IsSpace(Head(line)) THEN TrimStart(Tail(line)) ELSE line

Trim(line) == TrimStart(TrimEnd(line))

\* text.startsWith(prefix)
StartsWith(text, prefix) ==
    Len(text) >= Len(prefix) /\ SubSeq(text, 1, Len(prefix)) = prefix

\* lines.filter(line => line.trim() && !line.trim().startsWith('//')).length
linesOfCode(content) ==
    LET IsCode(line) == Trim(line) # <<>> /\ ~StartsWith(Trim(line), <<"/", "/">>)
    IN Len(SelectSeq(Split(content), IsCode))

\* A JavaScript number that may be NaN; val is in thousandths.
NaN == [kind |-> "NaN", val |-> 0]
Real(v) == [kind |-> "number", val |-> v]

\* Math.log(n) for n = 1..8, in thousandths
LnTable == <<0, 693, 1099, 1386, 1609, 1792, 1946, 2079>>

\* Math.log(Math.log(loc) * 5 + 1) for loc = 1..7, in thousandths
LnProxyTable == <<0, 1497, 1871, 2071, 2202, 2299, 2373>>

\* ComplexityAnalyzer.calculateMaintainabilityIndex.  Math.log(0) is -Infinity,
\* Math.log(-Infinity + 1) is NaN, and Math.max and Math.min of NaN are NaN.
calculateMaintainabilityIndex(loc, cyclomatic, cognitive) ==
    IF loc = 0 THEN NaN
    ELSE LET mi == Max(0, 171000 - (52 * LnProxyTable[loc]) \div 10 - 230 * cyclomatic
                          - (162 * LnTable[loc + 1]) \div 10)
         IN Real(Min(100000, Max(0, mi)))

\* ComplexityAnalyzer.analyze
analyze(content, language) ==
    LET loc == linesOfCode(content)
        cyclomaticComplexity == calculateCyclomaticComplexity(content)
        cognitiveComplexity == calculateCognitiveComplexity(content)
    IN [cyclomaticComplexity |-> cyclomaticComplexity,
        cognitiveComplexity |-> cognitiveComplexity,
        linesOfCode |-> loc,
        maintainabilityIndex |->
            calculateMaintainabilityIndex(loc, cyclomaticComplexity, cognitiveComplexity)]

SourcePieces == {"if", "else", "for", "x", "return", "$", " ", "&", "|", "?",
                 "{", "}", "(", "/", "#", NewLine}
Sources == SeqsUpTo(SourcePieces, MaxSourceLen)
Languages == {"javascript", "python"}

NoMetrics == [cyclomaticComplexity |-> 0, cognitiveComplexity |-> 0,
              linesOfCode |-> 0, maintainabilityIndex |-> Real(0)]

InitComplexity ==
    /\ cPhase = "call"
    /\ cContent \in Sources
    /\ cLanguage \in Languages
    /\ cMetrics = NoMetrics

\* const complexity = await this.complexityAnalyzer.analyze(content, language)
Analyze ==
    /\ cPhase = "call"
    /\ cMetrics' = analyze(cContent, cLanguage)
    /\ cPhase' = "returned"
    /\ UNCHANGED <<cContent, cLanguage>>
    /\ UNCHANGED exceptComplexity

NextComplexity ==
    \/ Analyze

---------------------------------------------------------------------------
(* CodeAnalysisService.analyzeFiles                                        *)

MaxFiles == 3

\* A filename is the sequence of pieces filename.split('.') gives: 'a.py' is
\* <<"a", "py">> and a name without a dot is a single piece.
Filenames == {<<"a", "py">>, <<"b", "go">>, <<"c", "txt">>, <<"d", "TS">>,
              <<"go">>, <<"x", "constructor">>}

\* ext.toLowerCase() on the extensions of the model
ExtToLowerCase(ext) == IF ext = "TS" THEN "ts" ELSE ext

languageMap ==
    [py |-> "python", ts |-> "typescript", tsx |-> "typescript", js |-> "javascript",
     jsx |-> "javascript", go |-> "go", rs |-> "rust"]

\* The members every object literal inherits from Object.prototype whose name
\* is its own lower-case form; the value of each is truthy and is no string.
InheritedKeys == {"constructor", "__proto__"}
InheritedValue == "[inherited]"
Null == "null"

\* CodeAnalysisService.detectLanguage: languageMap[ext || ''] || null, where
\* ext is the last piece of split('.')
detectLanguage(filename) ==
    LET ext == ExtToLowerCase(filename[Len(filename)])
    IN IF ext \in DOMAIN languageMap THEN languageMap[ext]
       ELSE IF ext \in InheritedKeys THEN InheritedValue
       ELSE Null

\* A file of the list: its name, and whether one of the awaited analysis
\* steps rejects for it.
AnalysedFiles == [filename : Filenames, throws : BOOLEAN]

InitFiles ==
    /\ afPc = "loop"
    /\ afFiles \in SeqsUpTo(AnalysedFiles, MaxFiles)
    /\ afIdx = 1
    /\ afResults = <<>>

\* if (!language) continue
SkipUnsupportedFile ==
    /\ afPc = "loop" /\ afIdx <= Len(afFiles)
    /\ detectLanguage(afFiles[afIdx].filename) = Null
    /\ afIdx' = afIdx + 1
    /\ UNCHANGED <<afPc, afFiles, afResults>>
    /\ UNCHANGED exceptFiles

\* the try block runs to results.push
PushFileResult ==
    /\ afPc = "loop" /\ afIdx <= Len(afFiles)
    /\ detectLanguage(afFiles[afIdx].filename) # Null
    /\ ~afFiles[afIdx].throws
    /\ afResults' = Append(afResults,
                           [file |-> afFiles[afIdx].filename,
                            language |-> detectLanguage(afFiles[afIdx].filename)])
    /\ afIdx' = afIdx + 1
    /\ UNCHANGED <<afPc, afFiles>>
    /\ UNCHANGED exceptFiles

\* a step of the try block rejects: catch logs and the loop goes on
CatchFileError ==
    /\ afPc = "loop" /\ afIdx <= Len(afFiles)
    /\ detectLanguage(afFiles[afIdx].filename) # Null
    /\ afFiles[afIdx].throws
    /\ afIdx' = afIdx + 1
    /\ UNCHANGED <<afPc, afFiles, afResults>>
    /\ UNCHANGED exceptFiles

\* return results
ReturnFileResults ==
    /\ afPc = "loop" /\ afIdx > Len(afFiles)
    /\ afPc' = "returned"
    /\ UNCHANGED <<afFiles, afIdx, afResults>>
    /\ UNCHANGED exceptFiles

NextFiles ==
    \/ SkipUnsupportedFile
    \/ PushFileResult
    \/ CatchFileError
    \/ ReturnFileResults

---------------------------------------------------------------------------
(* handlePullRequestReview                                                 *)

\* comments ... .slice(0, 30)
InlineCommentLimit == 30

\* reviewResult.overallScore >= 80
PassingScore == 80

\* How many issues of one kind the aggregated review holds.
IssueRunLengths == {0, 1, InlineCommentLimit - 1, InlineCommentLimit + 1}

\* The issues of an aggregated review, in the severity order that
\* mergeAnalysisResults leaves them in: critical issues without a line, high
\* issues with a line, low issues without a line, low issues with a line.
\* An issue with a line carries its position in the list as the line.
ReviewIssues(a, b, c, d) ==
    LET base == Repeat([severity |-> "critical", hasLine |-> FALSE], a)
                \o Repeat([severity |-> "high", hasLine |-> TRUE], b)
                \o Repeat([severity |-> "low", hasLine |-> FALSE], c)
                \o Repeat([severity |-> "low", hasLine |-> TRUE], d)
    IN [n \in 1..Len(base) |->
            [severity |-> base[n].severity,
             line |-> IF base[n].hasLine THEN <<n>> ELSE <<>>]]

ReviewIssueLists ==
    {ReviewIssues(a, b, c, d) : a \in {0, 1}, b \in IssueRunLengths, c \in {0, 1}, d \in {0, 2}}

\* What reviewService.reviewPullRequest does: it rejects, or it resolves to
\* the aggregated review (scores in units of 1/ScoreUnit).
HandlerScores == {50 * ScoreUnit, 80 * ScoreUnit - 1, 80 * ScoreUnit, 100 * ScoreUnit}
NoReviewOutcome == [threw |-> FALSE, overallScore |-> 0, issues |-> <<>>]
ReviewOutcomes ==
    {[threw |-> TRUE, overallScore |-> 0, issues |-> <<>>]}
    \cup [threw : {FALSE}, overallScore : HandlerScores, issues : ReviewIssueLists]

\* issues.filter(issue => issue.line).map(...).slice(0, 30)
inlineCommentsSliceFirst(issues) ==
    LET HasLine(issue) == issue.line # <<>>
        first == SubSeq(issues, 1, Min(InlineCommentLimit, Len(issues)))
        withLine == SelectSeq(first, HasLine)
    IN [n \in 1..Len(withLine) |->
            [line |-> withLine[n].line[1], severity |-> withLine[n].severity]]
inlineComments(issues) ==
    LET HasLine(issue) == issue.line # <<>>
        withLine == SelectSeq(issues, HasLine)
        mapped == [n \in 1..Len(withLine) |->
                      [line |-> withLine[n].line[1], severity |-> withLine[n].severity]]
    IN SubSeq(mapped, 1, Min(InlineCommentLimit, Len(mapped)))

InitHandler ==
    /\ hPc = "start"
    /\ hReview \in ReviewOutcomes
    /\ hStatuses = <<>>
    /\ hReviews = <<>>
    /\ hThrew = FALSE

HandlerIdle ==
    /\ hPc = "idle" /\ hReview = NoReviewOutcome /\ hStatuses = <<>>
    /\ hReviews = <<>> /\ hThrew = FALSE

\* createCommitStatus({state: 'pending'})
PostPendingStatus ==
    /\ hPc = "start"
    /\ hStatuses' = Append(hStatuses, "pending")
    /\ hPc' = "review"
    /\ UNCHANGED <<hReview, hReviews, hThrew>>
    /\ UNCHANGED exceptHandler

\* const reviewResult = await reviewService.reviewPullRequest(...)
ReviewResolves ==
    /\ hPc = "review" /\ ~hReview.threw
    /\ hPc' = "comment"
    /\ UNCHANGED <<hReview, hStatuses, hReviews, hThrew>>
    /\ UNCHANGED exceptHandler

\* reviewPullRequest rethrows what it catches: control goes to the catch block
ReviewRejects ==
    /\ hPc = "review" /\ hReview.threw
    /\ hPc' = "catch" /\ hThrew' = TRUE
    /\ UNCHANGED <<hReview, hStatuses, hReviews>>
    /\ UNCHANGED exceptHandler

\* await context.octokit.issues.createComment(...)
PostReviewComment ==
    /\ hPc = "comment"
    /\ hPc' = "inline"
    /\ UNCHANGED <<hReview, hStatuses, hReviews, hThrew>>
    /\ UNCHANGED exceptHandler

PostReviewCommentRejects ==
    /\ hPc = "comment"
    /\ hPc' = "catch" /\ hThrew' = TRUE
    /\ UNCHANGED <<hReview, hStatuses, hReviews>>
    /\ UNCHANGED exceptHandler

\* if (issues.length > 0) { comments = ...; if (comments.length > 0) createReview }
CreateInlineReview ==
    /\ hPc = "inline"
    /\ Len(hReview.issues) > 0 /\ Len(inlineComments(hReview.issues)) > 0
    /\ hReviews' = Append(hReviews, inlineComments(hReview.issues))
    /\ hPc' = "status"
    /\ UNCHANGED <<hReview, hStatuses, hThrew>>
    /\ UNCHANGED exceptHandler

CreateInlineReviewRejects ==
    /\ hPc = "inline"
    /\ Len(hReview.issues) > 0 /\ Len(inlineComments(hReview.issues)) > 0
    /\ hPc' = "catch" /\ hThrew' = TRUE
    /\ UNCHANGED <<hReview, hStatuses, hReviews>>
    /\ UNCHANGED exceptHandler

NoInlineReview ==
    /\ hPc = "inline"
    /\ ~(Len(hReview.issues) > 0 /\ Len(inlineComments(hReview.issues)) > 0)
    /\ hPc' = "status"
    /\ UNCHANGED <<hReview, hStatuses, hReviews, hThrew>>
    /\ UNCHANGED exceptHandler

\* const state = reviewResult.overallScore >= 80 ? 'success' : 'failure'
commitStateStrict(overallScore) ==
    IF overallScore > PassingScore * ScoreUnit THEN "success" ELSE "failure"
commitState(overallScore) ==
    IF overallScore >= PassingScore * ScoreUnit THEN "success" ELSE "failure"

\* createCommitStatus({state}).  The commit status is the channel the handler
\* reports on: the three createCommitStatus calls are taken to be accepted.
PostFinalStatus ==
    /\ hPc = "status"
    /\ hStatuses' = Append(hStatuses, commitState(hReview.overallScore))
    /\ hPc' = "notify"
    /\ UNCHANGED <<hReview, hReviews, hThrew>>
    /\ UNCHANGED exceptHandler

\* sendReviewNotification catches what Slack throws and trackReview only logs
NotifyAndTrack ==
    /\ hPc = "notify"
    /\ hPc' = "done"
    /\ UNCHANGED <<hReview, hStatuses, hReviews, hThrew>>
    /\ UNCHANGED exceptHandler

\* catch (error) { createCommitStatus({state: 'error'}) }
PostErrorStatus ==
    /\ hPc = "catch"
    /\ hStatuses' = Append(hStatuses, "error")
    /\ hPc' = "done"
    /\ UNCHANGED <<hReview, hReviews, hThrew>>
    /\ UNCHANGED exceptHandler

NextHandler ==
    \/ PostPendingStatus
    \/ ReviewResolves
    \/ ReviewRejects
    \/ PostReviewComment
    \/ PostReviewCommentRejects
    \/ CreateInlineReview
    \/ CreateInlineReviewRejects
    \/ NoInlineReview
    \/ PostFinalStatus
    \/ NotifyAndTrack
    \/ PostErrorStatus

---------------------------------------------------------------------------
(* LearningService.recordFalsePositive                                     *)

MaxCalls == 2
Calls == 1..MaxCalls

\* issue.code: absent, or a rule code
RuleCodes == {<<>>, <<"no-var">>, <<"eqeqeq">>}

\* The row of team_configs for the repository, if there is one.
NoConfigRow == [exists |-> FALSE, ignoredPatterns |-> <<>>]
ConfigRows == {NoConfigRow, [exists |-> TRUE, ignoredPatterns |-> <<"no-console">>]}

\* What getTeamConfig gave a call: the row it read, and whether the SELECT
\* rejected (getTeamConfig then returns null).
NotRead == [row |-> NoConfigRow, readFailed |-> FALSE]

Includes1(seq, x) == \E n \in 1..Len(seq) : seq[n] = x

\* updatedConfig = existingConfig || {..., ignoredPatterns: []}, with
\* issue.code added if it is set and not included yet
updatedPatterns(row, code) ==
    LET patterns == IF row.exists THEN row.ignoredPatterns ELSE <<>>
    IN IF code # <<>> /\ ~Includes1(patterns, code[1])
       THEN Append(patterns, code[1])
       ELSE patterns

InitLearn ==
    /\ lPc = [p \in Calls |-> "insert"]
    /\ lIssue \in [Calls -> RuleCodes]
    /\ lExisting = [p \in Calls |-> NotRead]
    /\ lConfig \in ConfigRows

LearnIdle ==
    /\ lPc = [p \in Calls |-> "idle"]
    /\ lIssue = [p \in Calls |-> <<>>]
    /\ lExisting = [p \in Calls |-> NotRead]
    /\ lConfig = NoConfigRow

\* await db.query(`INSERT INTO false_positives ...`)
InsertFalsePositive ==
    \E p \in Calls :
        /\ lPc[p] = "insert"
        /\ lPc' = [lPc EXCEPT ![p] = "select"]
        /\ UNCHANGED <<lIssue, lExisting, lConfig>>
        /\ UNCHANGED exceptLearn

\* the INSERT rejects: recordFalsePositive logs and returns
InsertRejects ==
    \E p \in Calls :
        /\ lPc[p] = "insert"
        /\ lPc' = [lPc EXCEPT ![p] = "failed"]
        /\ UNCHANGED <<lIssue, lExisting, lConfig>>
        /\ UNCHANGED exceptLearn

\* const existingConfig = await this.getTeamConfig(repoId)
GetTeamConfig ==
    \E p \in Calls :
        /\ lPc[p] = "select"
        /\ lExisting' = [lExisting EXCEPT ![p] = [row |-> lConfig, readFailed |-> FALSE]]
        /\ lPc' = [lPc EXCEPT ![p] = "upsert"]
        /\ UNCHANGED <<lIssue, lConfig>>
        /\ UNCHANGED exceptLearn

\* the SELECT rejects: getTeamConfig catches and returns null
GetTeamConfigFails ==
    \E p \in Calls :
        /\ lPc[p] = "select"
        /\ lExisting' = [lExisting EXCEPT ![p] = [row |-> NoConfigRow, readFailed |-> TRUE]]
        /\ lPc' = [lPc EXCEPT ![p] = "upsert"]
        /\ UNCHANGED <<lIssue, lConfig>>
        /\ UNCHANGED exceptLearn

\* INSERT INTO team_configs ... ON CONFLICT DO UPDATE SET config = $2
UpsertTeamConfig ==
    \E p \in Calls :
        /\ lPc[p] = "upsert"
        /\ lConfig' = [exists |-> TRUE,
                       ignoredPatterns |-> updatedPatterns(lExisting[p].row, lIssue[p])]
        /\ lPc' = [lPc EXCEPT ![p] = "done"]
        /\ UNCHANGED <<lIssue, lExisting>>
        /\ UNCHANGED exceptLearn

\* the upsert rejects: updateTeamConfig logs and returns
UpsertRejects ==
    \E p \in Calls :
        /\ lPc[p] = "upsert"
        /\ lPc' = [lPc EXCEPT ![p] = "failed"]
        /\ UNCHANGED <<lIssue, lExisting, lConfig>>
        /\ UNCHANGED exceptLearn

NextLearn ==
    \/ InsertFalsePositive
    \/ InsertRejects
    \/ GetTeamConfig
    \/ GetTeamConfigFails
    \/ UpsertTeamConfig
    \/ UpsertRejects

---------------------------------------------------------------------------
(* POST /api/metrics/review                                                *)

\* metricsStore.recentReviews.slice(0, 20)
RecentLimit == 20

MaxRequests == 21
MaxBodyChanges == 2

\* The request bodies; the timestamp of an entry is the number of the request
\* (new Date() does not go backwards).
ReviewBodies ==
    {[score |-> 60, issuesFound |-> 2, autoFixed |-> FALSE],
     [score |-> 90, issuesFound |-> 1, autoFixed |-> TRUE],
     [score |-> 100, issuesFound |-> 0, autoFixed |-> FALSE]}

RECURSIVE GCD(_, _)
GCD(a, b) == IF b = 0 THEN a ELSE GCD(b, a % b)

\* An exact fraction in lowest terms.
Fraction(num, den) ==
    LET g == GCD(num, den)
    IN IF g = 0 THEN [num |-> 0, den |-> 1] ELSE [num |-> num \div g, den |-> den \div g]

\* (averageScore * (totalReviews - 1) + score) / totalReviews
nextAverage(averageScore, totalReviews, score) ==
    Fraction(averageScore.num * (totalReviews - 1) + score * averageScore.den,
             averageScore.den * totalReviews)

EmptyStore ==
    [totalReviews |-> 0, averageScore |-> [num |-> 0, den |-> 1], issuesFixed |-> 0,
     recentReviews |-> <<>>]

InitMetrics ==
    /\ mStore = EmptyStore
    /\ mPosted = <<>>
    /\ mChanges = 0

MetricsIdle == InitMetrics

\* recentReviews.slice(0, 20)
keepAll(reviews) == reviews
keepRecent(reviews) == SubSeq(reviews, 1, Min(RecentLimit, Len(reviews)))

\* app.post('/api/metrics/review', ...)
PostReviewMetrics ==
    \E body \in ReviewBodies :
        LET changed == mPosted # <<>> /\ mPosted[Len(mPosted)] # body
            total == mStore.totalReviews + 1
            entry == [timestamp |-> total, score |-> body.score,
                      issuesFound |-> body.issuesFound, autoFixed |-> body.autoFixed]
            unshifted == <<entry>> \o mStore.recentReviews
        IN /\ Len(mPosted) < MaxRequests
           /\ changed => mChanges < MaxBodyChanges
           /\ mStore' = [totalReviews |-> total,
                         averageScore |-> nextAverage(mStore.averageScore, total, body.score),
                         issuesFixed |-> IF body.autoFixed
                                         THEN mStore.issuesFixed + body.issuesFound
                                         ELSE mStore.issuesFixed,
                         recentReviews |-> keepRecent(unshifted)]
           /\ mPosted' = Append(mPosted, body)
           /\ mChanges' = IF changed THEN mChanges + 1 ELSE mChanges
           /\ UNCHANGED exceptMetrics

NextMetrics ==
    \/ PostReviewMetrics

---------------------------------------------------------------------------
(* Specifications *)

ParseIdle == pPhase = "idle" /\ pResponse = NoJson /\ pReview = NoReview

FixIdle ==
    /\ fPhase = "idle" /\ fContent = <<>> /\ fIssues = <<>> /\ fIdx = 0
    /\ fFixedContent = <<>> /\ fFixes = <<>> /\ fCommitted = FALSE

ComplexityIdle ==
    cPhase = "idle" /\ cContent = <<>> /\ cLanguage = "javascript" /\ cMetrics = NoMetrics

FilesIdle == afPc = "idle" /\ afFiles = <<>> /\ afIdx = 0 /\ afResults = <<>>

LaterIdle == FilesIdle /\ HandlerIdle /\ LearnIdle /\ MetricsIdle

EarlierIdle ==
    /\ DedupIdle /\ ReviewIdle /\ CheckIdle /\ MergeIdle
    /\ ParseIdle /\ FixIdle /\ ComplexityIdle

OthersIdle == ParseIdle /\ FixIdle /\ ComplexityIdle /\ LaterIdle

Init == DedupIdle /\ InitReview /\ CheckIdle /\ MergeIdle /\ OthersIdle
Spec == Init /\ [][Next]_vars

DedupInit == InitDedup /\ ReviewIdle /\ CheckIdle /\ MergeIdle /\ OthersIdle
SpecDedup == DedupInit /\ [][NextDedup]_vars

CheckRunInit == DedupIdle /\ ReviewIdle /\ InitCheckRun /\ MergeIdle /\ OthersIdle
SpecCheckRun == CheckRunInit /\ [][NextCheckRun]_vars

AutoMergeInit == DedupIdle /\ ReviewIdle /\ CheckIdle /\ InitAutoMerge /\ OthersIdle
SpecAutoMerge == AutoMergeInit /\ [][NextAutoMerge]_vars

ParseInit ==
    /\ DedupIdle /\ ReviewIdle /\ CheckIdle /\ MergeIdle /\ InitParse /\ FixIdle
    /\ ComplexityIdle /\ LaterIdle
SpecParse == ParseInit /\ [][NextParse]_vars

AutoFixInit ==
    /\ DedupIdle /\ ReviewIdle /\ CheckIdle /\ MergeIdle /\ ParseIdle /\ InitFix
    /\ ComplexityIdle /\ LaterIdle
SpecAutoFix == AutoFixInit /\ [][NextFix]_vars

ComplexityInit ==
    /\ DedupIdle /\ ReviewIdle /\ CheckIdle /\ MergeIdle /\ ParseIdle /\ FixIdle
    /\ InitComplexity /\ LaterIdle
SpecComplexity == ComplexityInit /\ [][NextComplexity]_vars

FilesInit == EarlierIdle /\ InitFiles /\ HandlerIdle /\ LearnIdle /\ MetricsIdle
SpecFiles == FilesInit /\ [][NextFiles]_vars

HandlerInit == EarlierIdle /\ FilesIdle /\ InitHandler /\ LearnIdle /\ MetricsIdle
SpecHandler == HandlerInit /\ [][NextHandler]_vars

LearnInit == EarlierIdle /\ FilesIdle /\ HandlerIdle /\ InitLearn /\ MetricsIdle
SpecLearn == LearnInit /\ [][NextLearn]_vars

MetricsInit == EarlierIdle /\ FilesIdle /\ HandlerIdle /\ LearnIdle /\ InitMetrics
SpecMetrics == MetricsInit /\ [][NextMetrics]_vars

---------------------------------------------------------------------------
(* Properties of deduplicateIssues (SpecDedup)                             *)

\* The fields the deduplication is documented to compare.
Fields(issue) == <<issue.file, issue.line, issue.message>>

Range(s) == {s[n] : n \in 1..Len(s)}

\* C1: the result of deduplicateIssues holds exactly one entry for every
\* distinct (file, line, message) of its argument, an absent line counting as
\* a value of its own: issues are merged iff the three fields are equal.
C1_OneEntryPerFileLineMessage ==
    dPhase # "call" =>
        \A n \in 1..Len(dIssues) :
            Cardinality({k \in 1..Len(dUnique) : Fields(dUnique[k]) = Fields(dIssues[n])}) = 1

\* C2: every entry that survives deduplication is the first issue of the
\* argument with its (file, line, message), severity included, no other issue
\* with these fields survives, and the survivors are in argument order.
C2_FirstSeenSurvives ==
    dPhase # "call" =>
        \E at \in [1..Len(dUnique) -> 1..Len(dIssues)] :
            /\ \A k \in 1..Len(dUnique) :
                  /\ dUnique[k] = dIssues[at[k]]
                  /\ \A m \in 1..(at[k] - 1) : Fields(dIssues[m]) # Fields(dUnique[k])
            /\ \A k, l \in 1..Len(dUnique) :
                  k < l => at[k] < at[l] /\ Fields(dUnique[k]) # Fields(dUnique[l])

C2_Witness ==
    /\ dPhase = "returned"
    /\ \E m, n \in 1..Len(dIssues) :
          /\ m < n
          /\ Fields(dIssues[m]) = Fields(dIssues[n])
          /\ dIssues[m].severity # dIssues[n].severity
          /\ dIssues[m] \in Range(dUnique)
          /\ dIssues[n] \notin Range(dUnique)
    /\ Len(dUnique) = 2

\* C3: deduplicating a deduplicated list changes nothing.
C3_Idempotent == dPhase = "again" => dTwice = dUnique

C3_Witness ==
    /\ dPhase = "again"
    /\ Len(dUnique) = 2
    /\ Len(dIssues) = 3
    /\ dTwice = dUnique

---------------------------------------------------------------------------
(* Properties of the aggregated review (Spec)                              *)

\* reviewPullRequest returned the result of mergeAnalysisResults.
Aggregated == pc = "done" /\ astDone

AllIssues == aiReview.issues \o IssuesOf(astResults) \o IssuesOf(securityResults)
             \o IssuesOf(staticAnalysisResults)

Rank(issue) ==
    CASE issue.severity = "critical" -> 0 [] issue.severity = "high" -> 1
      [] issue.severity = "medium" -> 2 [] issue.severity = "low" -> 3
      [] issue.severity = "info" -> 4

OfSeverity(issues, s) == LET Is(i) == i.severity = s IN SelectSeq(issues, Is)

\* C4: the issues of the merged result are in non-decreasing severity rank, and
\* for every severity they are the deduplicated issues of that severity in the
\* order deduplication left them (a stable permutation).
C4_StableSeveritySort ==
    Aggregated =>
        LET out == mergedResult.issues
            unique == deduplicateIssues(AllIssues)
        IN /\ \A n \in 1..(Len(out) - 1) : Rank(out[n]) <= Rank(out[n + 1])
           /\ Len(out) = Len(unique)
           /\ \A s \in Severities : OfSeverity(out, s) = OfSeverity(unique, s)

C4_Witness ==
    /\ Aggregated
    /\ LET out == mergedResult.issues
           unique == deduplicateIssues(AllIssues)
       IN /\ Len(out) = 3
          /\ unique[1].severity = unique[2].severity
          /\ Rank(unique[3]) < Rank(unique[1])
          /\ out = <<unique[3], unique[1], unique[2]>>

Penalty(issue) ==
    CASE issue.severity = "critical" -> 10 [] issue.severity = "high" -> 5
      [] issue.severity = "medium" -> 2 [] issue.severity = "low" -> 1
      [] issue.severity = "info" -> 0

Clamp(v) == IF v < 0 THEN 0 ELSE IF v > 100 * ScoreUnit THEN 100 * ScoreUnit ELSE v

\* Base score 85, one critical issue reported twice and one low issue elsewhere.
ScenarioA ==
    /\ Aggregated
    /\ aiReview.overallScore = 85 * ScoreUnit
    /\ Len(AllIssues) = 3
    /\ \E k, l, m \in 1..3 :
          /\ k < l /\ m \notin {k, l}
          /\ AllIssues[k].severity = "critical" /\ AllIssues[l].severity = "critical"
          /\ Fields(AllIssues[k]) = Fields(AllIssues[l])
          /\ AllIssues[m].severity = "low"
          /\ Fields(AllIssues[m]) # Fields(AllIssues[k])

\* C5: the overall score is the AI base score minus the penalties of the issues
\* of the merged result (the survivors of deduplication), clamped to [0,100];
\* in scenario A two issues survive and the score is 74.
C5_AdjustedScore ==
    Aggregated =>
        LET out == mergedResult.issues
            penalties == SumSeq([n \in 1..Len(out) |-> Penalty(out[n])])
        IN /\ mergedResult.overallScore
                 = Clamp(aiReview.overallScore - penalties * ScoreUnit)
           /\ ScenarioA => Len(out) = 2 /\ mergedResult.overallScore = 74 * ScoreUnit

C5_Witness == ScenarioA /\ mergedResult.overallScore = 74 * ScoreUnit

\* C6: the overall score of every review is an integer between 0 and 100.
C6_IntegerScoreInRange ==
    pc = "done" =>
        /\ IsInteger(mergedResult.overallScore)
        /\ 0 <= mergedResult.overallScore
        /\ mergedResult.overallScore <= 100 * ScoreUnit

\* The producer results with one more issue put at position k of the issues of
\* the producer's first result (a result is added when there is none).
InsertAt(issues, k, issue) == SubSeq(issues, 1, k - 1) \o <<issue>> \o SubSeq(issues, k, Len(issues))
WithIssue(results, k, issue) ==
    IF results = <<>> THEN <<[issues |-> <<issue>>]>>
    ELSE <<[issues |-> InsertAt(results[1].issues, k, issue)]>> \o Tail(results)
Places(results) == IF results = <<>> THEN {1} ELSE 1..(Len(results[1].issues) + 1)

FileB == <<"b">>
NewCriticals ==
    {c \in [file : {FileA, FileB}, line : {<<>>, <<2>>}, message : {MsgX},
             severity : {"critical"}] :
        \A n \in 1..Len(AllIssues) : Fields(AllIssues[n]) # Fields(c)}

\* The scores of the reviews that differ from this one by one more critical
\* issue, with new (file, line, message), in the list of one producer.
ScoresWithOneMoreCritical ==
    {mergeAnalysisResults([aiReview EXCEPT !.issues = InsertAt(aiReview.issues, k, c)],
                          astResults, securityResults, staticAnalysisResults).overallScore :
        c \in NewCriticals, k \in 1..(Len(aiReview.issues) + 1)}
    \cup
    {mergeAnalysisResults(aiReview, WithIssue(astResults, k, c), securityResults,
                          staticAnalysisResults).overallScore :
        c \in NewCriticals, k \in Places(astResults)}
    \cup
    {mergeAnalysisResults(aiReview, astResults, WithIssue(securityResults, k, c),
                          staticAnalysisResults).overallScore :
        c \in NewCriticals, k \in Places(securityResults)}
    \cup
    {mergeAnalysisResults(aiReview, astResults, securityResults,
                          WithIssue(staticAnalysisResults, k, c)).overallScore :
        c \in NewCriticals, k \in Places(staticAnalysisResults)}

\* C7: for a base score and producer issues (up to MaxFixedIssues of them), one
\* more critical issue with a new dedup key, in any producer's list and at any
\* place, never gives a higher overall score.
C7_CriticalNeverRaisesScore ==
    Aggregated /\ Len(AllIssues) <= MaxFixedIssues =>
        \A score \in ScoresWithOneMoreCritical : score <= mergedResult.overallScore

C7_Witness ==
    /\ Aggregated
    /\ Len(AllIssues) = 2
    /\ mergedResult.overallScore > 10 * ScoreUnit
    /\ ScoresWithOneMoreCritical = {mergedResult.overallScore - 10 * ScoreUnit}

\* C11: a failed AI review (the API call fails, or the response cannot be
\* parsed) never makes reviewPullRequest throw, and the review it returns is
\* built from the fallback: the canned summary, base score 50, no positive
\* findings, the canned recommendation, and no issue of the AI.
C11_AIFailureYieldsFallback ==
    /\ thrown # "reviewCode"
    /\ Aggregated /\ aiReview.summary # "Code review completed" =>
          LET out == mergedResult.issues
              penalties == SumSeq([n \in 1..Len(out) |-> Penalty(out[n])])
          IN /\ mergedResult.summary
                   = "Review completed with parsing issues. Please check manually."
             /\ mergedResult.positiveFindings = <<>>
             /\ mergedResult.recommendations
                   = <<"Manual review recommended due to parsing error">>
             /\ mergedResult.overallScore = Clamp(50 * ScoreUnit - penalties * ScoreUnit)

\* A producer of the analysis phase that threw: it left an empty result list.
FailedProducers ==
    {p \in {"ast", "security", "static"} :
        /\ p = "ast" => astDone /\ astResults = <<>>
        /\ p = "security" => securityDone /\ securityResults = <<>>
        /\ p = "static" => staticDone /\ staticAnalysisResults = <<>>}

HasEntryFor(issues, issue) == \E k \in 1..Len(issues) : Fields(issues[k]) = Fields(issue)

C13_FanInBarrier ==
    /\ (pc \in {"ai", "done", "threw"} /\ mergedResult # getEmptyReviewResult)
          => astDone /\ securityDone /\ staticDone
    /\ aiReview # NoReview => astDone /\ securityDone /\ staticDone
    /\ Aggregated =>
          /\ \A n \in 1..Len(AllIssues) : HasEntryFor(mergedResult.issues, AllIssues[n])
          /\ \A k \in 1..Len(mergedResult.issues) : HasEntryFor(AllIssues, mergedResult.issues[k])
          /\ \A k, l \in 1..Len(mergedResult.issues) :
                k # l => Fields(mergedResult.issues[k]) # Fields(mergedResult.issues[l])

C13_Witness ==
    /\ Aggregated
    /\ Len(IssuesOf(astResults)) = 1
    /\ Len(IssuesOf(securityResults)) = 1
    /\ Len(IssuesOf(staticAnalysisResults)) = 1
    /\ Len(mergedResult.issues) = 3

\* The producers' issues in the order AI reviewer, static analyzers (the AST
\* analysis and the static analysis), security scanner.
DeclaredOrder ==
    aiReview.issues \o IssuesOf(astResults) \o IssuesOf(staticAnalysisResults)
    \o IssuesOf(securityResults)

FirstWith(issues, fields) ==
    issues[CHOOSE n \in 1..Len(issues) :
              /\ Fields(issues[n]) = fields
              /\ \A m \in 1..(n - 1) : Fields(issues[m]) # fields]

\* C14: every entry of the merged review is the first issue with its (file,
\* line, message) in the order AI reviewer, static analyzers, security scanner:
\* a static analyzer's entry wins over the security scanner's, the AI's over both.
C14_DeclaredProducerOrder ==
    Aggregated =>
        \A k \in 1..Len(mergedResult.issues) :
            mergedResult.issues[k]
                = FirstWith(DeclaredOrder, Fields(mergedResult.issues[k]))

\* C17: a review whose producers yield no issue has no issues and the base
\* score of the AI review, clamped to [0,100], as its overall score (90 for a
\* base score of 90); this includes the review of no files.
C17_NoIssuesKeepsBaseScore ==
    pc = "done" /\ AllIssues = <<>> =>
        /\ mergedResult.issues = <<>>
        /\ aiReview # NoReview
        /\ mergedResult.overallScore = Clamp(aiReview.overallScore)

---------------------------------------------------------------------------
(* Properties of parseReviewResponse (SpecParse)                           *)

\* C15: every issue object of the AI response, however malformed, comes out
\* of normalisation as one valid issue: a severity and a category of the
\* closed enumerations ('medium' and 'maintainability' for a value that is
\* missing, of a wrong type or unknown; an allowed value is kept), 'unknown'
\* for a missing file and the placeholder for a missing message; no issue
\* object makes normalisation raise, so none is lost.
C15_EveryIssueNormalised ==
    pPhase = "returned" /\ pResponse.kind = "json" /\ pResponse.issues.kind = "array" =>
        LET IsObject(item) == item.kind = "object"
            objects == SelectSeq(pResponse.issues.val, IsObject)
            out == pReview.issues
        IN /\ Len(out) = Len(objects)
           /\ \A n \in 1..Len(out) :
                 /\ out[n].severity \in Severities
                 /\ out[n].category \in Categories
                 /\ objects[n].severity.kind = "string"
                    /\ objects[n].severity.val \in Severities
                       => out[n].severity = objects[n].severity.val
                 /\ objects[n].severity.kind # "string"
                    \/ ToLowerCase(objects[n].severity.val) \notin Severities
                       => out[n].severity = "medium"
                 /\ objects[n].category.kind = "string"
                    /\ objects[n].category.val \in Categories
                       => out[n].category = objects[n].category.val
                 /\ objects[n].category.kind # "string"
                    \/ ToLowerCase(objects[n].category.val) \notin Categories
                       => out[n].category = "maintainability"
                 /\ objects[n].file.kind = "undefined" => out[n].file = Unknown
                 /\ objects[n].message.kind = "undefined" => out[n].message = IssueDetected

---------------------------------------------------------------------------
(* Properties of applyAutoFixes (SpecAutoFix)                              *)

\* An issue applyFix has no rewrite for on this content: its code is absent or
\* not one of the six rule codes, or it has no line, or its line is beyond the
\* end of the content.
Advisory(issue, content) ==
    \/ issue.code = <<>>
    \/ issue.code[1] \notin FixCodes
    \/ issue.line = <<>>
    \/ issue.line[1] > Len(Split(content))

\* C18: applyFix returns the content unchanged for an auto-fixable issue whose
\* code is absent or not whitelisted, that has no line, or whose line is beyond
\* the end; a file with only such issues is not reported as fixed and is not
\* committed.
C18_OnlyWhitelistedCodesRewrite ==
    /\ fPhase \in {"fixing", "commit", "returned"} =>
          \A issue \in FileIssues :
              Advisory(issue, fFixedContent) =>
                  applyFix(fFixedContent, issue) = fFixedContent
    /\ (/\ fPhase \in {"fixing", "commit", "returned"}
        /\ \A n \in 1..fIdx : Advisory(fixableIssues(fIssues)[n], fContent))
          => /\ fFixedContent = fContent \/ fixableIssues(fIssues) = <<>>
             /\ fIdx = Len(fixableIssues(fIssues)) => fFixes = <<>> /\ ~fCommitted

C18_Witness ==
    /\ fPhase = "returned"
    /\ fContent = <<"var", " ", "\"">>
    /\ fIssues = <<[code |-> <<"custom-rule">>, line |-> <<1>>, autoFixable |-> TRUE]>>
    /\ fIdx = 1
    /\ fFixedContent = fContent
    /\ fFixes = <<>>
    /\ ~fCommitted

---------------------------------------------------------------------------
(* Properties of the complexity metrics (SpecComplexity)                   *)

\* A piece that can be part of an identifier of the source language.
IsIdentifierPart(piece) == IsWord(piece) \/ piece = "$"

\* The keyword stands at piece n as a word of its own, not inside an identifier.
KeywordAt(text, n, word) ==
    /\ text[n] = word
    /\ n = 1 \/ ~IsIdentifierPart(text[n - 1])
    /\ n = Len(text) \/ ~IsIdentifierPart(text[n + 1])

KeywordCount(text, word) == Cardinality({n \in 1..Len(text) : KeywordAt(text, n, word)})

\* The occurrences of 'else if': the keyword else, white space, the keyword if.
ElseIfTokens(text) ==
    Cardinality({n \in 1..Len(text) :
        /\ text[n] = "else"
        /\ n = 1 \/ ~IsIdentifierPart(text[n - 1])
        /\ \E m \in (n + 2)..Len(text) :
              /\ \A k \in (n + 1)..(m - 1) : IsWhitespace(text[k])
              /\ text[m] = "if"
              /\ m = Len(text) \/ ~IsIdentifierPart(text[m + 1])})

DecisionTokens(text) ==
    KeywordCount(text, "if") + ElseIfTokens(text) + KeywordCount(text, "while")
    + KeywordCount(text, "for") + KeywordCount(text, "case") + KeywordCount(text, "catch")
    + KeywordCount(text, "and") + KeywordCount(text, "or")
    + PairCount(text, "&") + PairCount(text, "|") + CharCount(text, "?")

\* C19: the cyclomatic complexity is 1 plus the number of decision tokens of
\* the text, a keyword counting only where it is a whole word and not a part
\* of an identifier; it is at least 1, and 1 for a text without such a token.
C19_CyclomaticCountsWholeTokens ==
    cPhase = "returned" =>
        /\ cMetrics.cyclomaticComplexity >= 1
        /\ cMetrics.cyclomaticComplexity = 1 + DecisionTokens(cContent)

\* The cognitive complexity as the sum, line by line, of 1 + the nesting level
\* for a line with a control keyword and 1 for each && or ||, the nesting level
\* following the braces of the lines so far.
ControlAndLogicalOnly(content) ==
    LET lines == Split(content)
        F[n \in 0..Len(lines)] ==
            IF n = 0 THEN [complexity |-> 0, nestingLevel |-> 0]
            ELSE LET prev == F[n - 1]
                     line == lines[n]
                     nestingLevel ==
                         Max(0, prev.nestingLevel + CharCount(line, "{")
                                - CharCount(line, "}"))
                     control == IF \E word \in ControlKeywords : MatchCount(line, word) > 0
                                THEN 1 + nestingLevel ELSE 0
                 IN [complexity |-> prev.complexity + control
                                    + PairCount(line, "&") + PairCount(line, "|"),
                     nestingLevel |-> nestingLevel]
    IN F[Len(lines)].complexity

OneBracePerLine(content) ==
    \A n \in 1..Len(Split(content)) :
        CharCount(Split(content)[n], "{") + CharCount(Split(content)[n], "}") <= 1

\* C20: nothing but control keywords (weighted by nesting) and logical
\* operators contributes to the cognitive complexity: it is 0 for a text with
\* neither, and on texts with at most one brace per line it is the sum
\* described by the claim.
C20_OnlyControlAndLogicalContribute ==
    cPhase = "returned" =>
        /\ cMetrics.cognitiveComplexity >= 0
        /\ (/\ \A word \in ControlKeywords : MatchCount(cContent, word) = 0
            /\ PairCount(cContent, "&") + PairCount(cContent, "|") = 0)
              => cMetrics.cognitiveComplexity = 0
        /\ OneBracePerLine(cContent)
              => cMetrics.cognitiveComplexity = ControlAndLogicalOnly(cContent)

\* The marker that starts a line comment in a language.
CommentMarker(language) == IF language = "python" THEN <<"#">> ELSE <<"/", "/">>

\* C21: linesOfCode is the number of lines that are not empty after trimming
\* and do not start with the line-comment marker of the language ('#' for
\* Python, '//' else).
C21_LinesOfCodeSkipsComments ==
    cPhase = "returned" =>
        LET IsCode(line) == /\ Trim(line) # <<>>
                            /\ ~StartsWith(Trim(line), CommentMarker(cLanguage))
        IN cMetrics.linesOfCode = Len(SelectSeq(Split(cContent), IsCode))

\* C22: the maintainability index is a number in [0,100] for every input, the
\* empty file included.
C22_MaintainabilityIndexDefined ==
    cPhase = "returned" =>
        /\ cMetrics.maintainabilityIndex.kind = "number"
        /\ cMetrics.maintainabilityIndex.val >= 0
        /\ cMetrics.maintainabilityIndex.val <= 100000

\* C24: when the pull-request handler has returned, on any path, the check
\* run it created is completed and has a conclusion.
C24_CheckRunAlwaysCompleted ==
    prPc \in {"done", "failed"} =>
        checkRun.status = "completed" /\ checkRun.conclusion # "none"

---------------------------------------------------------------------------
(* Properties of analyzeFiles (SpecFiles)                                  *)

SupportedExtensions == {"py", "ts", "tsx", "js", "jsx", "go", "rs"}

\* A file has a supported extension when its name has a dot and the part
\* after the last dot is, in any letter case, one of the seven extensions.
HasSupportedExtension(filename) ==
    Len(filename) >= 2 /\ ExtToLowerCase(filename[Len(filename)]) \in SupportedExtensions

RECURSIVE ExpectedFileResults(_)
ExpectedFileResults(files) ==
    IF files = <<>> THEN <<>>
    ELSE LET f == Head(files)
         IN (IF HasSupportedExtension(f.filename) /\ ~f.throws
             THEN <<[file |-> f.filename,
                     language |-> languageMap[ExtToLowerCase(f.filename[Len(f.filename)])]]>>
             ELSE <<>>) \o ExpectedFileResults(Tail(files))

\* C23: analyzeFiles returns exactly one result, in input order and with the
\* language of the extension, for each file with a supported extension whose
\* analysis does not throw, and nothing for any other file.
C23_OneResultPerSupportedFile ==
    afPc = "returned" => afResults = ExpectedFileResults(afFiles)

---------------------------------------------------------------------------
(* Properties of successive fixes on one file (SpecAutoFix)                *)

\* The lines named by the fixes applied so far.
FixedLines ==
    {fixableIssues(fIssues)[n].line[1] :
        n \in {m \in 1..fIdx : fixableIssues(fIssues)[m].line # <<>>}}

\* C27: while the fixes of a file are applied one after another, the file
\* keeps its number of lines and every line that no applied fix names is
\* unchanged.
C27_FixesKeepOtherLines ==
    fPhase = "fixing" =>
        LET before == Split(fContent)
            after == Split(fFixedContent)
        IN /\ Len(after) = Len(before)
           /\ \A k \in 1..Len(before) : k \notin FixedLines => after[k] = before[k]

C27_Witness ==
    /\ fPhase = "fixing" /\ fIdx = 2
    /\ FixedLines = {1, 2}
    /\ Len(Split(fContent)) = 2
    /\ Split(fFixedContent)[1] # Split(fContent)[1]
    /\ Split(fFixedContent)[2] # Split(fContent)[2]

---------------------------------------------------------------------------
(* Properties of the auto-merge handler over several reviews (SpecAutoMerge) *)

\* The most recent Code Sensei comment of a list in listComments order
\* (oldest first), if there is one.
RECURSIVE LastSensei(_)
LastSensei(comments) ==
    IF comments = <<>> THEN <<>>
    ELSE IF comments[Len(comments)].sensei THEN <<comments[Len(comments)]>>
    ELSE LastSensei(SubSeq(comments, 1, Len(comments) - 1))

\* C26: a pull request whose most recent Code Sensei review comment states a
\* score below the minimum score is not merged, whatever an earlier review
\* comment states.
C26_LatestReviewDecides ==
    \A n \in 1..Len(mergeLog) :
        LET last == LastSensei(mergeLog[n].comments)
        IN (/\ last # <<>>
            /\ ScoreMatch(last[1]) # <<>>
            /\ ScoreMatch(last[1])[1] < MinScore(amEnv))
           => ~mergeLog[n].mergeCalled

---------------------------------------------------------------------------
(* Properties of handlePullRequestReview (SpecHandler)                     *)

IssuesWithLine ==
    LET HasLine(issue) == issue.line # <<>>
    IN SelectSeq(hReview.issues, HasLine)

\* C28: a created review holds between 1 and 30 comments, which are the first
\* issues with a line in the severity-sorted order, so that no issue with a
\* line that is left out is strictly more severe than a posted one; when no
\* issue has a line, no review is created.
C28_InlineCommentsBySeverity ==
    /\ Len(hReviews) <= 1
    /\ \A r \in Range(hReviews) :
          /\ Len(r) >= 1 /\ Len(r) <= 30
          /\ Len(r) = Min(30, Len(IssuesWithLine))
          /\ \A n \in 1..Len(r) :
                /\ r[n].line = IssuesWithLine[n].line[1]
                /\ r[n].severity = IssuesWithLine[n].severity
          /\ \A n \in 1..Len(r), m \in (Len(r) + 1)..Len(IssuesWithLine) :
                severityOrder[IssuesWithLine[m].severity] >= severityOrder[r[n].severity]
    /\ (hPc \in {"status", "notify", "done"} /\ IssuesWithLine = <<>>) => hReviews = <<>>
    /\ (hPc \in {"status", "notify"} /\ IssuesWithLine # <<>>) => Len(hReviews) = 1

C28_Witness ==
    /\ hPc = "done" /\ ~hThrew
    /\ Len(IssuesWithLine) > 30
    /\ Len(hReviews) = 1 /\ Len(hReviews[1]) = 30
    /\ \E n \in 1..Len(hReview.issues) : hReview.issues[n].line = <<>>

---------------------------------------------------------------------------
(* Properties of concurrent recordFalsePositive calls (SpecLearn)          *)

Occurrences(seq, x) == Cardinality({n \in 1..Len(seq) : seq[n] = x})

\* C29: when all calls have completed and every query of every call was
\* answered, the stored ignoredPatterns holds the code of every recorded
\* issue that had one, exactly once.
C29_NoLostUpdate ==
    (\A p \in Calls : lPc[p] = "done" /\ ~lExisting[p].readFailed) =>
        \A p \in Calls :
            lIssue[p] # <<>> => Occurrences(lConfig.ignoredPatterns, lIssue[p][1]) = 1

---------------------------------------------------------------------------
(* Properties of the metrics store (SpecMetrics)                           *)

RECURSIVE SumScores(_)
SumScores(bodies) ==
    IF bodies = <<>> THEN 0 ELSE Head(bodies).score + SumScores(Tail(bodies))

---------------------------------------------------------------------------
(* Properties of the check-run conclusion (SpecCheckRun)                   *)

\* The findings of all analysis results, each with its category: the findings
\* of the security scanner are the security issues.
Findings(results) ==
    FlatMap([n \in 1..Len(results) |->
        [k \in 1..Len(results[n].issues) |->
            [severity |-> results[n].issues[k].severity, security |-> FALSE]]
        \o [k \in 1..Len(results[n].securityIssues) |->
            [severity |-> results[n].securityIssues[k].severity, security |-> TRUE]]])

IsBlocking(f) == f.severity = "critical" \/ (f.severity = "high" /\ f.security)

BlockingCount(results) == Len(SelectSeq(Findings(results), IsBlocking))

C16_ReportedScoreInRange ==
    prPc = "done" =>
        /\ checkRun.overallScore.kind = "number"
        /\ checkRun.overallScore.val >= 0
        /\ checkRun.overallScore.val <= 100 * ScoreUnit

---------------------------------------------------------------------------
(* Properties of the auto-merge handler (SpecAutoMerge)                    *)

\* A Code Sensei comment of the pull request states an overall score that is
\* at least the configured minimum.
ScoreEstablished(comments) ==
    \E k \in 1..Len(comments) :
        /\ comments[k].sensei
        /\ comments[k].overallScore # <<>>
        /\ comments[k].overallScore[1] >= MinScore(amEnv) * ScoreUnit

\* C10: a merge is called for a pull request only when auto-merge is enabled,
\* the check suite concluded success, the pull request has the auto-merge
\* label and an approving review, and a Code Sensei score of at least the
\* minimum is found for it.
C10_MergeOnlyWhenAllFour ==
    \A n \in 1..Len(mergeLog) :
        mergeLog[n].mergeCalled =>
            /\ amEnv.enabled
            /\ checkSuite = "success"
            /\ mergeLog[n].label
            /\ mergeLog[n].approved
            /\ ScoreEstablished(mergeLog[n].comments)

=============================================================================
